---- MODULE Spec2Model ----
(***************************************************************************)
(* Building-permit lead pipeline: transform_permit_data and its classifier *)
(* functions (fetch_permits.py) and the routes that invoke them (main.py). *)
(*                                                                         *)
(* Text is a tuple of one-character strings, so that substring matching,   *)
(* case folding, trimming and number formatting are computed character by  *)
(* character as the Python code computes them.  A timestamp is the integer *)
(* YYYYMMDDHH; a construction value is a whole number of dollars.          *)
(***************************************************************************)
EXTENDS Integers, Sequences, FiniteSets, TLC

\* ---------------------------------------------------------------------
\* Bounds of the model
\* ---------------------------------------------------------------------
\* largest number of rows in an input batch
MaxRows == 2

\* ---------------------------------------------------------------------
\* Text primitives (Python str)
\* ---------------------------------------------------------------------
UpperChars == <<"A", "B", "C", "D", "E", "F", "G", "H", "I", "J", "K", "L", "M", "N", "O", "P", "Q", "R", "S", "T", "U", "V", "W", "X", "Y", "Z">>
LowerChars == <<"a", "b", "c", "d", "e", "f", "g", "h", "i", "j", "k", "l", "m", "n", "o", "p", "q", "r", "s", "t", "u", "v", "w", "x", "y", "z">>
DigitChars == <<"0", "1", "2", "3", "4", "5", "6", "7", "8", "9">>

IsUpper(c) == \E i \in 1..26 : UpperChars[i] = c
IsLower(c) == \E i \in 1..26 : LowerChars[i] = c
IsAlpha(c) == IsUpper(c) \/ IsLower(c)
IsDigit(c) == \E i \in 1..10 : DigitChars[i] = c

LowerChar(c) == IF IsUpper(c) THEN LowerChars[CHOOSE i \in 1..26 : UpperChars[i] = c] ELSE c
UpperChar(c) == IF IsLower(c) THEN UpperChars[CHOOSE i \in 1..26 : LowerChars[i] = c] ELSE c

\* str.lower()
Lower(s) == [i \in 1..Len(s) |-> LowerChar(s[i])]

\* str.title(): a cased character is upper case when it follows an uncased
\* one (or starts the text) and lower case otherwise
Title(s) == [i \in 1..Len(s) |->
               IF i = 1 \/ ~IsAlpha(s[i - 1]) THEN UpperChar(s[i]) ELSE LowerChar(s[i])]

\* str.strip(): drop leading and trailing blanks
RECURSIVE LStrip(_)
LStrip(s) == IF s # <<>> /\ Head(s) = " " THEN LStrip(Tail(s)) ELSE s
RECURSIVE RStrip(_)
RStrip(s) == IF s # <<>> /\ s[Len(s)] = " " THEN RStrip(SubSeq(s, 1, Len(s) - 1)) ELSE s
Strip(s) == RStrip(LStrip(s))

\* Python's `term in text`
Contains(text, term) ==
    \E i \in 0..(Len(text) - Len(term)) : SubSeq(text, i + 1, i + Len(term)) = term

\* any(term in text for term in terms)
ContainsAny(text, terms) == \E t \in terms : Contains(text, t)

\* int <-> decimal digits
DigitOf(c) == (CHOOSE i \in 1..10 : DigitChars[i] = c) - 1
RECURSIVE DigitsToNat(_)
DigitsToNat(s) == IF s = <<>> THEN 0
                  ELSE 10 * DigitsToNat(SubSeq(s, 1, Len(s) - 1)) + DigitOf(s[Len(s)])
RECURSIVE NatToDigits(_)
NatToDigits(n) == IF n < 10 THEN <<DigitChars[n + 1]>>
                  ELSE NatToDigits(n \div 10) \o <<DigitChars[(n % 10) + 1]>>
AllDigits(s) == s # <<>> /\ \A i \in 1..Len(s) : IsDigit(s[i])

\* digits of n left-padded with zeros to width w (the %m, %d, %Y fields)
RECURSIVE ZeroPad(_, _)
ZeroPad(s, w) == IF Len(s) >= w THEN s ELSE ZeroPad(<<"0">> \o s, w)

\* the ',' grouping of Python's format mini-language
RECURSIVE GroupThousands(_)
GroupThousands(s) == IF Len(s) <= 3 THEN s
                     ELSE GroupThousands(SubSeq(s, 1, Len(s) - 3)) \o <<",">>
                          \o SubSeq(s, Len(s) - 2, Len(s))

\* ---------------------------------------------------------------------
\* Cells, rows and data frames (pandas)
\* ---------------------------------------------------------------------
\* A cell is one value of a record: k is its Python type, n its number or
\* timestamp, s its text.
\*   "null" None / NaN      "nat" pandas.NaT      "ts" Timestamp / datetime
\*   "num"  int / float     "str" str
Null   == [k |-> "null", n |-> 0, s |-> <<>>]
NaT    == [k |-> "nat",  n |-> 0, s |-> <<>>]
Ts(t)  == [k |-> "ts",   n |-> t, s |-> <<>>]
Num(x) == [k |-> "num",  n |-> x, s |-> <<>>]
Str(t) == [k |-> "str",  n |-> 0, s |-> t]

\* pandas.isna
IsNa(c) == c.k \in {"null", "nat"}

\* str(x) of a cell value; a missing value inside a frame is the float NaN
PyStr(c) == CASE c.k = "str"  -> c.s
              [] c.k = "num"  -> (IF c.n < 0 THEN <<"-">> \o NatToDigits(0 - c.n) ELSE NatToDigits(c.n))
              [] c.k = "null" -> <<"n", "a", "n">>
              [] c.k = "nat"  -> <<"N", "a", "T">>
              [] OTHER        -> NatToDigits(c.n)

\* The value of None as a frame: transform_permit_data(None)
NoneDF == [none |-> TRUE, cols |-> {}, rows |-> <<>>]
Frame(cols, rows) == [none |-> FALSE, cols |-> cols, rows |-> rows]

\* DataFrame.empty: some axis has length 0
IsEmpty(f) == f.cols = {} \/ Len(f.rows) = 0

\* the cells of one column, in row order
Column(f, col) == [i \in 1..Len(f.rows) |-> f.rows[i][col]]

\* row.get(col, default)
Get(row, col, default) == IF col \in DOMAIN row THEN row[col] ELSE default

\* f[col] = cells (adds the column when it is new)
SetColumn(f, col, cells) ==
    [f EXCEPT !.cols = f.cols \cup {col},
              !.rows = [i \in 1..Len(f.rows) |->
                          [c \in f.cols \cup {col} |->
                              IF c = col THEN cells[i] ELSE f.rows[i][c]]]]

\* The dtype pandas infers for a column.  A column is datetime64 when it
\* holds only timestamps and missing values and is not made of None alone;
\* it is numeric when it holds only numbers and missing values; any other
\* column is of dtype object.
IsDatetimeColumn(cells) ==
    /\ \A i \in 1..Len(cells) : cells[i].k \in {"ts", "nat", "null"}
    /\ \E i \in 1..Len(cells) : cells[i].k \in {"ts", "nat"}
IsNumericColumn(cells) ==
    /\ \A i \in 1..Len(cells) : cells[i].k \in {"num", "null"}
    /\ \E i \in 1..Len(cells) : cells[i].k = "num"

\* Series.min() / Series.max() of a datetime64 column (NaT skipped)
TsValues(cells) == {cells[i].n : i \in {j \in 1..Len(cells) : cells[j].k = "ts"}}
SeriesMin(cells) == IF TsValues(cells) = {} THEN NaT
                    ELSE Ts(CHOOSE t \in TsValues(cells) : \A u \in TsValues(cells) : t <= u)
SeriesMax(cells) == IF TsValues(cells) = {} THEN NaT
                    ELSE Ts(CHOOSE t \in TsValues(cells) : \A u \in TsValues(cells) : t >= u)

\* "YYYY-MM-DD" <-> timestamp.  ParseDate accepts the ISO form only.
IsIsoDate(s) ==
    /\ Len(s) = 10
    /\ s[5] = "-" /\ s[8] = "-"
    /\ \A i \in {1, 2, 3, 4, 6, 7, 9, 10} : IsDigit(s[i])
    /\ DigitsToNat(SubSeq(s, 6, 7)) \in 1..12
    /\ DigitsToNat(SubSeq(s, 9, 10)) \in 1..31
ParseDate(s) == (DigitsToNat(SubSeq(s, 1, 4)) * 10000 + DigitsToNat(SubSeq(s, 6, 7)) * 100
                 + DigitsToNat(SubSeq(s, 9, 10))) * 100

\* Timestamp.strftime('%Y-%m-%d'): the time of day is dropped
Strftime(t) ==
    LET d == t \div 100
    IN  ZeroPad(NatToDigits(d \div 10000), 4) \o <<"-">>
        \o ZeroPad(NatToDigits((d \div 100) % 100), 2) \o <<"-">>
        \o ZeroPad(NatToDigits(d % 100), 2)

\* 1970-01-01 00:00, the value pandas.to_datetime gives a small integer
\* (integers are taken as nanoseconds since the epoch)
EpochStart == 1970010100

\* pandas.to_datetime(x, errors='coerce') of one cell
ToDatetime(c) == CASE c.k = "ts"  -> c
                   [] c.k = "str" -> (IF IsIsoDate(Strip(c.s)) THEN Ts(ParseDate(Strip(c.s))) ELSE NaT)
                   [] c.k = "num" -> Ts(EpochStart)
                   [] OTHER       -> NaT

\* pandas.to_numeric(x, errors='coerce') of one cell: text is a number only
\* when it is an optionally signed run of digits
ToNumeric(c) ==
    CASE c.k = "num" -> c
      [] c.k = "str" ->
            LET t == Strip(c.s)
            IN  IF AllDigits(t) THEN Num(DigitsToNat(t))
                ELSE IF t # <<>> /\ Head(t) = "-" /\ AllDigits(Tail(t))
                     THEN Num(0 - DigitsToNat(Tail(t)))
                     ELSE Null
      [] OTHER -> Null

\* f"${x:,.2f}"
FormatMoney(x) ==
    <<"$">> \o (IF x < 0 THEN <<"-">> ELSE <<>>)
    \o GroupThousands(NatToDigits(IF x < 0 THEN 0 - x ELSE x)) \o <<".", "0", "0">>

\* Series.value_counts().to_dict(): each value present (missing ones
\* excluded) mapped to the number of rows that hold it
ValueCounts(cells) ==
    LET present == {cells[i].s : i \in {j \in 1..Len(cells) : ~IsNa(cells[j])}}
    IN  [v \in present |-> Cardinality({i \in 1..Len(cells) : ~IsNa(cells[i]) /\ cells[i].s = v})]

\* DEFAULT_VALUES
DEFAULT_VALUES ==
    [PERMITNO           |-> Str(<<"U", "N", "K", "N", "O", "W", "N">>),
     PERMIT_TYPE        |-> Str(<<"U", "n", "k", "n", "o", "w", "n">>),
     PERMIT_STATUS      |-> Str(<<"U", "n", "k", "n", "o", "w", "n">>),
     CONSTRUCTION_VALUE |-> Num(0),
     WORK_TYPE          |-> Str(<<"U", "n", "k", "n", "o", "w", "n">>),
     SUB_WORK_TYPE      |-> Str(<<"U", "n", "k", "n", "o", "w", "n">>),
     PERMIT_DESCRIPTION |-> Str(<<"N", "o", " ", "d", "e", "s", "c", "r", "i", "p", "t", "i", "o", "n", " ", "p", "r", "o", "v", "i", "d", "e", "d">>),
     FOLDERNAME         |-> Str(<<"A", "d", "d", "r", "e", "s", "s", " ", "n", "o", "t", " ", "p", "r", "o", "v", "i", "d", "e", "d">>)]

\* ---------------------------------------------------------------------
\* Classifier (fetch_permits.py, determine_contractor_type / determine_priority)
\* ---------------------------------------------------------------------
High   == <<"H", "i", "g", "h">>
Medium == <<"M", "e", "d", "i", "u", "m">>
Low    == <<"L", "o", "w">>
GeneralContractors == <<"G", "e", "n", "e", "r", "a", "l", " ", "C", "o", "n", "t", "r", "a", "c", "t", "o", "r", "s">>
Plumbers     == <<"P", "l", "u", "m", "b", "e", "r", "s">>
Electricians == <<"E", "l", "e", "c", "t", "r", "i", "c", "i", "a", "n", "s">>
General      == <<"G", "e", "n", "e", "r", "a", "l">>

Empty == Str(<<>>)

HighValue   == 1000000
MediumValue == 500000

\* float(x): ok is FALSE where Python raises TypeError / ValueError
ToFloat(c) ==
    CASE c.k = "num" -> [ok |-> TRUE, n |-> c.n]
      [] c.k = "str" -> [ok |-> ToNumeric(c).k = "num", n |-> ToNumeric(c).n]
      [] OTHER       -> [ok |-> FALSE, n |-> 0]

\* Mutant of determine_contractor_type: the Plumbers rule is tried first
determine_contractor_type_PlumbersFirst(row) ==
    LET work_type     == Lower(PyStr(Get(row, "WORK_TYPE", Empty)))
        description   == Lower(PyStr(Get(row, "PERMIT_DESCRIPTION", Empty)))
        sub_work_type == Lower(PyStr(Get(row, "SUB_WORK_TYPE", Empty)))
    IN  IF \E term \in {<<"b", "a", "t", "h", "r", "o", "o", "m">>, <<"p", "l", "u", "m", "b", "i", "n", "g">>} :
                    Contains(description, term) \/ Contains(sub_work_type, term)
        THEN Plumbers
        ELSE IF ContainsAny(work_type, {<<"g", "a", "r", "d", "e", "n", " ", "s", "u", "i", "t", "e">>, <<"a", "d", "d", "i", "t", "i", "o", "n", " ", "t", "o", " ", "b", "u", "i", "l", "d", "i", "n", "g">>, <<"a", "d", "d", "i", "t", "i", "o", "n">>})
        THEN GeneralContractors
        ELSE IF Contains(work_type, <<"i", "n", "t", "e", "r", "i", "o", "r", " ", "f", "i", "n", "i", "s", "h">>) \/ Contains(sub_work_type, <<"i", "n", "t", "e", "r", "i", "o", "r", " ", "f", "i", "n", "i", "s", "h">>)
        THEN Electricians
        ELSE General

\* Mutant of determine_contractor_type: no default category, a record that
\* matches no rule gets no category
determine_contractor_type_NoDefault(row) ==
    LET work_type     == Lower(PyStr(Get(row, "WORK_TYPE", Empty)))
        description   == Lower(PyStr(Get(row, "PERMIT_DESCRIPTION", Empty)))
        sub_work_type == Lower(PyStr(Get(row, "SUB_WORK_TYPE", Empty)))
    IN  IF ContainsAny(work_type, {<<"g", "a", "r", "d", "e", "n", " ", "s", "u", "i", "t", "e">>, <<"a", "d", "d", "i", "t", "i", "o", "n", " ", "t", "o", " ", "b", "u", "i", "l", "d", "i", "n", "g">>, <<"a", "d", "d", "i", "t", "i", "o", "n">>})
        THEN GeneralContractors
        ELSE IF \E term \in {<<"b", "a", "t", "h", "r", "o", "o", "m">>, <<"p", "l", "u", "m", "b", "i", "n", "g">>} :
                    Contains(description, term) \/ Contains(sub_work_type, term)
        THEN Plumbers
        ELSE IF Contains(work_type, <<"i", "n", "t", "e", "r", "i", "o", "r", " ", "f", "i", "n", "i", "s", "h">>) \/ Contains(sub_work_type, <<"i", "n", "t", "e", "r", "i", "o", "r", " ", "f", "i", "n", "i", "s", "h">>)
        THEN Electricians
        ELSE <<>>

determine_contractor_type(row) ==
    LET work_type     == Lower(PyStr(Get(row, "WORK_TYPE", Empty)))
        description   == Lower(PyStr(Get(row, "PERMIT_DESCRIPTION", Empty)))
        sub_work_type == Lower(PyStr(Get(row, "SUB_WORK_TYPE", Empty)))
    IN  IF ContainsAny(work_type, {<<"g", "a", "r", "d", "e", "n", " ", "s", "u", "i", "t", "e">>, <<"a", "d", "d", "i", "t", "i", "o", "n", " ", "t", "o", " ", "b", "u", "i", "l", "d", "i", "n", "g">>, <<"a", "d", "d", "i", "t", "i", "o", "n">>})
        THEN GeneralContractors
        ELSE IF \E term \in {<<"b", "a", "t", "h", "r", "o", "o", "m">>, <<"p", "l", "u", "m", "b", "i", "n", "g">>} :
                    Contains(description, term) \/ Contains(sub_work_type, term)
        THEN Plumbers
        ELSE IF Contains(work_type, <<"i", "n", "t", "e", "r", "i", "o", "r", " ", "f", "i", "n", "i", "s", "h">>) \/ Contains(sub_work_type, <<"i", "n", "t", "e", "r", "i", "o", "r", " ", "f", "i", "n", "i", "s", "h">>)
        THEN Electricians
        ELSE General

\* Mutant of determine_priority: the two value rules come before the text rules
determine_priority_ValuesFirst(row) ==
    LET work_type   == Lower(PyStr(Get(row, "WORK_TYPE", Empty)))
        permit_type == Lower(PyStr(Get(row, "PERMIT_TYPE", Empty)))
        value       == ToFloat(Get(row, "CONSTRUCTION_VALUE", Num(0)))
    IN  IF ~value.ok THEN Low
        ELSE IF value.n >= HighValue THEN High
        ELSE IF value.n >= MediumValue THEN Medium
        ELSE IF ContainsAny(work_type, {<<"r", "e", "n", "o", "v", "a", "t", "i", "o", "n">>, <<"a", "l", "t", "e", "r", "a", "t", "i", "o", "n">>, <<"a", "d", "d", "i", "t", "i", "o", "n">>}) THEN High
        ELSE IF Contains(work_type, <<"n", "e", "w", " ", "c", "o", "n", "s", "t", "r", "u", "c", "t", "i", "o", "n">>) /\ Contains(permit_type, <<"r", "e", "s", "i", "d", "e", "n", "t", "i", "a", "l">>)
        THEN High
        ELSE IF Contains(permit_type, <<"r", "e", "s", "i", "d", "e", "n", "t", "i", "a", "l">>) THEN Medium
        ELSE Low

determine_priority(row) ==
    LET work_type   == Lower(PyStr(Get(row, "WORK_TYPE", Empty)))
        permit_type == Lower(PyStr(Get(row, "PERMIT_TYPE", Empty)))
        value       == ToFloat(Get(row, "CONSTRUCTION_VALUE", Num(0)))
    IN  IF ~value.ok THEN Low
        ELSE IF value.n >= HighValue THEN High
        ELSE IF ContainsAny(work_type, {<<"r", "e", "n", "o", "v", "a", "t", "i", "o", "n">>, <<"a", "l", "t", "e", "r", "a", "t", "i", "o", "n">>, <<"a", "d", "d", "i", "t", "i", "o", "n">>}) THEN High
        ELSE IF Contains(work_type, <<"n", "e", "w", " ", "c", "o", "n", "s", "t", "r", "u", "c", "t", "i", "o", "n">>) /\ Contains(permit_type, <<"r", "e", "s", "i", "d", "e", "n", "t", "i", "a", "l">>)
        THEN High
        ELSE IF value.n >= MediumValue THEN Medium
        ELSE IF Contains(permit_type, <<"r", "e", "s", "i", "d", "e", "n", "t", "i", "a", "l">>) THEN Medium
        ELSE Low

\* ---------------------------------------------------------------------
\* Inputs
\* ---------------------------------------------------------------------
Columns == {"PERMITNO", "PERMIT_TYPE", "APPLICATION_DATE", "PERMIT_STATUS", "CONSTRUCTION_VALUE",
            "WORK_TYPE", "SUB_WORK_TYPE", "PERMIT_DESCRIPTION", "FOLDERNAME"}

Row(no, ptype, date, status, value, work, sub, desc, addr) ==
    [PERMITNO |-> no, PERMIT_TYPE |-> ptype, APPLICATION_DATE |-> date, PERMIT_STATUS |-> status,
     CONSTRUCTION_VALUE |-> value, WORK_TYPE |-> work, SUB_WORK_TYPE |-> sub,
     PERMIT_DESCRIPTION |-> desc, FOLDERNAME |-> addr]

\* Rows as fetch_permit_data builds them: the date is a datetime or missing
FetchedRows ==
    { Row(Str(<<"P", "-", "0", "0", "1">>), Str(<<"C", "o", "m", "m", "e", "r", "c", "i", "a", "l">>), Ts(2025063012), Str(<<"a", "c", "t", "i", "v", "e">>), Num(1500000),
          Str(<<"R", "e", "p", "a", "i", "r">>), Str(<<"O", "f", "f", "i", "c", "e">>), Str(<<"O", "f", "f", "i", "c", "e", " ", "r", "e", "p", "a", "i", "r">>), Str(<<"1", " ", "M", "a", "i", "n", " ", "S", "t">>)),
      Row(Str(<<"P", "-", "0", "0", "2">>), Str(<<"R", "E", "S", "I", "D", "E", "N", "T", "I", "A", "L">>), Ts(2024010100), Str(<<"P", "e", "n", "d", "i", "n", "g">>), Num(250000),
          Str(<<" ", "i", "n", "t", "e", "r", "i", "o", "r", " ", "a", "l", "t", "e", "r", "a", "t", "i", "o", "n", " ">>), Str(<<"P", "l", "u", "m", "b", "i", "n", "g">>), Str(<<"b", "a", "t", "h", "r", "o", "o", "m", " ", "r", "e", "m", "o", "d", "e", "l">>), Null),
      Row(Str(<<"P", "-", "0", "0", "3">>), Str(<<"R", "e", "s", "i", "d", "e", "n", "t", "i", "a", "l">>), Ts(2023061500), Str(<<"A", "p", "p", "r", "o", "v", "e", "d">>), Num(750000),
          Str(<<"A", "d", "d", "i", "t", "i", "o", "n", " ", "t", "o", " ", "B", "u", "i", "l", "d", "i", "n", "g">>), Str(<<"S", "t", "o", "r", "a", "g", "e">>), Str(<<"B", "a", "t", "h", "r", "o", "o", "m", " ", "r", "e", "m", "o", "d", "e", "l">>), Str(<<"3", " ", "E", "l", "m", " ", "S", "t">>)),
      Row(Str(<<"P", "-", "0", "0", "4">>), Null, Ts(2026101500), Null, Null,
          Null, Null, Null, Str(<<"4", " ", "O", "a", "k", " ", "A", "v", "e">>)),
      Row(Null, Str(<<"R", "e", "s", "i", "d", "e", "n", "t", "i", "a", "l">>), Null, Str(<<"P", "e", "n", "d", "i", "n", "g">>), Null,
          Str(<<"R", "e", "p", "a", "i", "r">>), Str(<<"D", "u", "p", "l", "e", "x">>), Str(<<"D", "u", "p", "l", "e", "x", " ", "c", "o", "n", "v", "e", "r", "s", "i", "o", "n">>), Str(<<"5", " ", "A", "s", "h", " ", "L", "n">>)),
      Row(Str(<<"P", "-", "0", "0", "6">>), Str(<<"r", "e", "s", "i", "d", "e", "n", "t", "i", "a", "l">>), Ts(2025123100), Str(<<"A", "c", "t", "i", "v", "e">>), Num(0 - 5000),
          Str(<<"N", "e", "w", " ", "C", "o", "n", "s", "t", "r", "u", "c", "t", "i", "o", "n">>), Str(<<"I", "n", "t", "e", "r", "i", "o", "r", " ", "F", "i", "n", "i", "s", "h">>), Str(<<"N", "e", "w", " ", "h", "o", "m", "e">>), Str(<<"6", " ", "P", "i", "n", "e", " ", "R", "d">>)),
      Row(Str(<<"P", "-", "0", "0", "7">>), Num(3), Ts(2025020109), Str(<<"A", "c", "t", "i", "v", "e">>), Num(600000),
          Str(<<"D", "e", "m", "o", "l", "i", "t", "i", "o", "n">>), Str(<<"R", "e", "t", "a", "i", "l">>), Num(7), Str(<<"7", " ", "B", "i", "r", "c", "h", " ", "R", "d">>)) }

\* Rows a caller of transform_permit_data can also hand over: dates as text
\* (parseable or not), as epoch numbers, as NaT; values as text or missing
OtherRows ==
    { Row(Str(<<"P", "-", "0", "0", "8">>), Str(<<"C", "o", "m", "m", "e", "r", "c", "i", "a", "l">>), Str(<<"2", "0", "2", "5", "-", "0", "3", "-", "1", "0">>), Str(<<"A", "c", "t", "i", "v", "e">>), Str(<<"$", "1", ",", "5", "0", "0", ",", "0", "0", "0">>),
          Str(<<"G", "a", "r", "d", "e", "n", " ", "S", "u", "i", "t", "e">>), Str(<<"O", "f", "f", "i", "c", "e">>), Str(<<"S", "u", "i", "t", "e">>), Str(<<"8", " ", "C", "e", "d", "a", "r", " ", "L", "n">>)),
      Row(Str(<<"P", "-", "0", "0", "9">>), Str(<<"I", "n", "d", "u", "s", "t", "r", "i", "a", "l">>), Str(<<"n", "/", "a">>), Str(<<"A", "c", "t", "i", "v", "e">>), Str(<<"7", "5", "0", "0", "0", "0">>),
          Str(<<"R", "e", "n", "o", "v", "a", "t", "i", "o", "n">>), Str(<<"W", "a", "r", "e", "h", "o", "u", "s", "e">>), Str(<<"W", "a", "r", "e", "h", "o", "u", "s", "e">>), Str(<<"9", " ", "M", "a", "p", "l", "e", " ", "D", "r">>)),
      Row(Str(<<"P", "-", "0", "1", "0">>), Str(<<"C", "o", "m", "m", "e", "r", "c", "i", "a", "l">>), Num(17172), Str(<<"A", "c", "t", "i", "v", "e">>), Str(<<"a", "b", "c">>),
          Str(<<"R", "e", "p", "a", "i", "r">>), Str(<<"R", "e", "t", "a", "i", "l">>), Str(<<"p", "l", "u", "m", "b", "i", "n", "g", " ", "f", "i", "x">>), Str(<<"1", "0", " ", "S", "p", "r", "u", "c", "e", " ", "A", "v", "e">>)),
      Row(Str(<<"P", "-", "0", "1", "1">>), Str(<<"C", "o", "m", "m", "e", "r", "c", "i", "a", "l">>), NaT, Str(<<"A", "c", "t", "i", "v", "e">>), Num(300000),
          Str(<<"R", "e", "p", "a", "i", "r">>), Str(<<"R", "e", "t", "a", "i", "l">>), Str(<<"S", "h", "o", "p">>), Str(<<"1", "1", " ", "W", "i", "l", "l", "o", "w", " ", "S", "t">>)),
      Row(Str(<<"P", "-", "0", "1", "2">>), Str(<<"C", "o", "m", "m", "e", "r", "c", "i", "a", "l">>), Ts(2025031000), Str(<<"A", "c", "t", "i", "v", "e">>), Str(<<"$", "1", ",", "5", "0", "0", ",", "0", "0", "0">>),
          Str(<<"R", "e", "p", "a", "i", "r">>), Str(<<"R", "e", "t", "a", "i", "l">>), Str(<<"S", "h", "o", "p", " ", "f", "i", "t", "-", "o", "u", "t">>), Str(<<"1", "2", " ", "L", "a", "r", "c", "h", " ", "S", "t">>)),
      Row(Str(<<"P", "-", "0", "1", "3">>), Str(<<"C", "o", "m", "m", "e", "r", "c", "i", "a", "l">>), Ts(2024070400), Str(<<"A", "c", "t", "i", "v", "e">>), Null,
          Str(<<"R", "e", "p", "a", "i", "r">>), Str(<<"R", "e", "t", "a", "i", "l">>), Str(<<"R", "o", "o", "f", " ", "r", "e", "p", "a", "i", "r">>), Str(<<"1", "3", " ", "A", "l", "d", "e", "r", " ", "S", "t">>)) }

SampleRows == FetchedRows \cup OtherRows

\* Columns the upstream schema may lack
DroppedColumnSets == {{}, {"APPLICATION_DATE"}, {"CONSTRUCTION_VALUE"}, {"PERMIT_TYPE"}}

Restrict(row, cols) == [c \in cols |-> row[c]]

\* every frame of at most MaxRows rows over one of the schemas
FramesOf(rowSet) ==
    { Frame(Columns \ d, [i \in 1..Len(r) |-> Restrict(r[i], Columns \ d)]) :
        d \in DroppedColumnSets, r \in UNION {[1..k -> rowSet] : k \in 0..MaxRows} }

\* what transform_permit_data can be called with
DirectInputs == {NoneDF} \cup FramesOf(SampleRows)

\* what fetch_permit_data returns: None on any failure, or a frame
FetchedInputs == {NoneDF} \cup { f \in FramesOf(FetchedRows) : Len(f.rows) > 0 }

\* wall-clock time of the run
Nows == {2026110210}

\* wall-clock time of a second run on the same batch
LaterNows == {2026110211, 2027010100}

\* the filter parameters of a /leads request: the multi-select lists and the
\* two value bounds as they arrive, as text (empty: not given)
NoFilter == [contractor_types |-> {}, statuses |-> {}, work_types |-> {},
             min_value |-> <<>>, max_value |-> <<>>]

LeadsFilters ==
    { [NoFilter EXCEPT !.contractor_types = {<<"G", "e", "n", "e", "r", "a", "l">>}],
      [NoFilter EXCEPT !.contractor_types = {<<"P", "l", "u", "m", "b", "e", "r", "s">>}],
      [NoFilter EXCEPT !.statuses = {<<"a", "c", "t", "i", "v", "e">>}],
      [NoFilter EXCEPT !.work_types = {<<"R", "e", "p", "a", "i", "r">>}],
      [NoFilter EXCEPT !.min_value = <<"5", "0", "0", "0", "0", "0">>],
      [NoFilter EXCEPT !.min_value = <<"a", "b", "c">>, !.max_value = <<"1", "0", "0", "0", "0", "0", "0">>] }

\* page, limit and filters of a /leads request
LeadsArgs ==
    {<<0, 50, NoFilter>>, <<1, 0, NoFilter>>, <<1, 101, NoFilter>>, <<1, 1, NoFilter>>,
     <<2, 1, NoFilter>>, <<3, 1, NoFilter>>, <<1, 2, NoFilter>>, <<1, 50, NoFilter>>}
    \cup {<<p, 1, f>> : p \in {1, 2}, f \in LeadsFilters}
\* ---------------------------------------------------------------------
\* State
\* ---------------------------------------------------------------------
VARIABLES
    caller,     \* who runs the pipeline: "direct", "fetch_route" (/fetch-permit-data), "leads_route" (/leads)
    now,        \* wall-clock time of the run
    args,       \* <<page, limit>> of the request
    raw,        \* the batch as it was before the call (None: NoneDF)
    df,         \* the caller's DataFrame object, which the pipeline assigns into
    loc,        \* locals of transform_permit_data
    pc,         \* position in the handler / in transform_permit_data
    result,     \* what transform_permit_data returned
    response,   \* what the route answered
    classifier_row, \* the record a classifier function is called with on its own
    derived,    \* what the classifier functions returned for it
    run,        \* 1 in the first run on the batch, 2 in the second
    previous,   \* what the first run returned, once a second has begun
    disk,       \* the files of the download and cleaning scripts
    ret,        \* what the last script function returned
    store,      \* the rows of the lead table, committed
    view        \* what the last request to the lead application was answered with

vars == <<caller, now, args, raw, df, loc, pc, result, response, classifier_row, derived, run, previous,
          disk, ret, store, view>>

\* the variables of the permit pipeline and its routes
pipeline_vars == <<caller, now, args, raw, df, loc, pc, result, response, classifier_row, derived,
                   run, previous>>

\* no file, and the state of the scripts before any has run
NoFile == [exists |-> FALSE, decodable |-> TRUE, lines |-> <<>>]
NoDisk == [permits |-> NoFile, backups |-> <<>>, cleaned |-> NoFile]
NoReturn == [fn |-> "none", value |-> FALSE, raised |-> FALSE, error |-> "none", at |-> "none",
             total |-> 0, mean |-> Null, before |-> NoDisk]

\* no request answered yet
NoView == [route |-> "none", code |-> 0, flash |-> "none", raised |-> "none",
           total_leads |-> 0, total_value |-> 0, avg_value |-> 0,
           request |-> <<>>, store_before |-> <<>>]

\* ---------------------------------------------------------------------
\* Results of transform_permit_data
\* ---------------------------------------------------------------------
NoSummary ==
    [total_permits |-> 0,
     priority_distribution |-> <<>>, contractor_type_distribution |-> <<>>,
     permit_type_distribution |-> <<>>,
     date_range |-> [start |-> <<>>, end |-> <<>>],
     data_quality |-> [original_records |-> 0, invalid_dates_removed |-> 0,
                       records_within_time_range |-> 0]]

NoDiag == [total_records_processed |-> 0, invalid_dates_removed |-> 0, old_permits_filtered |-> 0]

\* keys: the keys the returned dict has; a field whose key is absent holds a filler
NoResult ==
    [status |-> "none", keys |-> {}, error_type |-> "", message |-> "",
     permits |-> <<>>, summary |-> NoSummary, diag |-> NoDiag, timestamp |-> 0]

ErrorResult(etype, msg) ==
    [NoResult EXCEPT !.status = "error", !.keys = {"status", "error_type", "message", "details"},
                     !.error_type = etype, !.message = msg]

\* Mutant of ExceptionResult: the handler lets the exception go on to the caller
ExceptionEscapes == [NoResult EXCEPT !.status = "exception"]

\* the handler of `except Exception`
ExceptionResult == ErrorResult("processing_error", "Error processing permit data")

WarningResult(l) ==
    [NoResult EXCEPT !.status = "warning", !.keys = {"status", "message", "details", "metadata"},
                     !.message = "No permits found for 2024-2025",
                     !.diag = [total_records_processed |-> l.original_length,
                               invalid_dates_removed |-> l.records_removed,
                               old_permits_filtered |-> l.total_before - l.total_after]]

\* locals of the function; df is the local name `df` once it is rebound
NoLoc == [df |-> NoneDF, original_length |-> 0, records_removed |-> 0,
          total_before |-> 0, total_after |-> 0,
          dates_bound |-> FALSE, min_date |-> NaT, max_date |-> NaT]

\* the recency window of the filter
start_date == 2024010100
end_date   == 2025123100

\* ---------------------------------------------------------------------
\* Stages of transform_permit_data
\* ---------------------------------------------------------------------
\* entry check
CheckInput ==
    /\ pc = "enter"
    /\ IF df.none \/ IsEmpty(df)
       THEN /\ result' = ErrorResult("validation_error", "No permit data provided")
            /\ pc' = "return"
       ELSE /\ result' = result
            /\ pc' = "analysis"
    /\ UNCHANGED <<disk, ret, store, view, run, previous, classifier_row, derived, caller, now, args, raw, df, loc, response>>

\* "Initial Date Analysis": the .dt accessor exists on datetime64 columns only
\* Mutant of DateAnalysisRaises: the column is read without the `in df.columns` test
DateAnalysisReadsUnguarded(f) ==
    "APPLICATION_DATE" \notin f.cols \/ ~IsDatetimeColumn(Column(f, "APPLICATION_DATE"))

DateAnalysisRaises(f) ==
    "APPLICATION_DATE" \in f.cols /\ ~IsDatetimeColumn(Column(f, "APPLICATION_DATE"))

DateAnalysis ==
    /\ pc = "analysis"
    /\ IF DateAnalysisRaises(df)
       THEN /\ result' = ExceptionResult
            /\ pc' = "return"
            /\ loc' = loc
       ELSE /\ result' = result
            /\ pc' = "defaults"
            /\ loc' = IF "APPLICATION_DATE" \in df.cols
                      THEN [loc EXCEPT !.dates_bound = TRUE,
                                       !.min_date = SeriesMin(Column(df, "APPLICATION_DATE")),
                                       !.max_date = SeriesMax(Column(df, "APPLICATION_DATE"))]
                      ELSE loc
    /\ UNCHANGED <<disk, ret, store, view, run, previous, classifier_row, derived, caller, now, args, raw, df, response>>

\* Step 1: df[col] = df[col].fillna(default) for the columns that exist
FillDefaultValues(f) ==
    [f EXCEPT !.rows = [i \in 1..Len(f.rows) |->
        [c \in f.cols |->
            IF c \in DOMAIN DEFAULT_VALUES /\ IsNa(f.rows[i][c])
            THEN DEFAULT_VALUES[c] ELSE f.rows[i][c]]]]

FillDefaults ==
    /\ pc = "defaults"
    /\ df' = FillDefaultValues(df)
    /\ pc' = "dates"
    /\ UNCHANGED <<disk, ret, store, view, run, previous, classifier_row, derived, caller, now, args, raw, loc, result, response>>

\* Step 2: the column is created when absent, converted, and the rows
\* without a date are dropped into a new frame
WithDateColumn(f) ==
    IF "APPLICATION_DATE" \in f.cols THEN f
    ELSE SetColumn(f, "APPLICATION_DATE", [i \in 1..Len(f.rows) |-> NaT])

ConvertDates(f) ==
    SetColumn(f, "APPLICATION_DATE",
              [i \in 1..Len(f.rows) |-> ToDatetime(f.rows[i]["APPLICATION_DATE"])])

HasDate(row) == ~IsNa(row["APPLICATION_DATE"])

\* Mutant of DropNaDates: the rows without a date stay in the frame
DropNaDates_KeepsAll(f) == f

DropNaDates(f) == [f EXCEPT !.rows = SelectSeq(f.rows, HasDate)]

\* Mutant of ValidateDates: the run goes on to the filter when no row is left
ValidateDates_ContinuesWhenEmpty ==
    /\ pc = "dates"
    /\ LET converted == ConvertDates(WithDateColumn(df))
           kept      == DropNaDates(converted)
       IN  /\ df' = converted
           /\ loc' = [loc EXCEPT !.df = kept,
                                 !.original_length = Len(converted.rows),
                                 !.records_removed = Len(converted.rows) - Len(kept.rows)]
           /\ result' = result
           /\ pc' = "filter"
    /\ UNCHANGED <<disk, ret, store, view, run, previous, classifier_row, derived, caller, now, args, raw, response>>

ValidateDates ==
    /\ pc = "dates"
    /\ LET converted == ConvertDates(WithDateColumn(df))
           kept      == DropNaDates(converted)
           l         == [loc EXCEPT !.df = kept,
                                    !.original_length = Len(converted.rows),
                                    !.records_removed = Len(converted.rows) - Len(kept.rows)]
       IN  /\ df' = converted
           /\ loc' = l
           /\ IF IsEmpty(kept)
              THEN /\ result' = ErrorResult("validation_error", "No valid records after date validation")
                   /\ pc' = "return"
              ELSE /\ result' = result
                   /\ pc' = "filter"
    /\ UNCHANGED <<disk, ret, store, view, run, previous, classifier_row, derived, caller, now, args, raw, response>>

\* Mutant of InWindow: the window is the twelve months before the run
InWindow_SinceLastYear(row) == row["APPLICATION_DATE"].n >= now - 1000000

\* Step 3: the rows inside the window
InWindow(row) ==
    row["APPLICATION_DATE"].n >= start_date /\ row["APPLICATION_DATE"].n <= end_date

RecentPermits(f) == [f EXCEPT !.rows = SelectSeq(f.rows, InWindow)]

\* The log line for the most recent excluded permits formats five fields
\* from four arguments: str.format raises IndexError on the first row
ExcludedLogRaises(f) == Len(f.rows) > 0

FilterRecent ==
    /\ pc = "filter"
    /\ LET recent == RecentPermits(loc.df)
           l      == [loc EXCEPT !.total_before = Len(loc.df.rows),
                                 !.total_after = Len(recent.rows)]
       IN  IF l.total_after = 0 /\ ExcludedLogRaises(loc.df)
           THEN /\ result' = ExceptionResult
                /\ pc' = "return"
                /\ loc' = l
           ELSE IF IsEmpty(recent)
           THEN /\ result' = WarningResult(l)
                /\ pc' = "return"
                /\ loc' = [l EXCEPT !.df = recent]
           ELSE /\ result' = result
                /\ pc' = "clean"
                /\ loc' = [l EXCEPT !.df = recent]
    /\ UNCHANGED <<disk, ret, store, view, run, previous, classifier_row, derived, caller, now, args, raw, df, response>>

\* Step 4: text columns are stripped and title-cased through the .str
\* accessor, which exists on object columns only and gives NaN for a value
\* that is not text; the dtype of a column of the filtered frame is the one
\* of the caller's frame it was taken from
text_columns == {"PERMIT_TYPE", "PERMIT_STATUS", "WORK_TYPE", "SUB_WORK_TYPE"}

StandardizeText(c) == IF c.k = "str" THEN Str(Title(Strip(c.s))) ELSE Null

\* pd.to_numeric(errors='coerce') then fillna(0.0)
CoerceValue(c) == IF ToNumeric(c).k = "num" THEN ToNumeric(c) ELSE Num(0)

StandardizeRaises(parent, f) ==
    \/ \E col \in text_columns \cap f.cols : IsNumericColumn(Column(parent, col))
    \/ "CONSTRUCTION_VALUE" \notin f.cols

Standardized(f) ==
    [f EXCEPT !.rows = [i \in 1..Len(f.rows) |->
        [c \in f.cols |->
            IF c \in text_columns THEN StandardizeText(f.rows[i][c])
            ELSE IF c = "CONSTRUCTION_VALUE" THEN CoerceValue(f.rows[i][c])
            ELSE f.rows[i][c]]]]

Standardize ==
    /\ pc = "clean"
    /\ IF StandardizeRaises(df, loc.df)
       THEN /\ result' = ExceptionResult
            /\ pc' = "return"
            /\ loc' = loc
       ELSE /\ result' = result
            /\ pc' = "classify"
            /\ loc' = [loc EXCEPT !.df = Standardized(loc.df)]
    /\ UNCHANGED <<disk, ret, store, view, run, previous, classifier_row, derived, caller, now, args, raw, df, response>>

\* Steps 5 and 6: one derived value per row
Classified(f) ==
    LET g == SetColumn(f, "Contractor Type",
                       [i \in 1..Len(f.rows) |-> Str(determine_contractor_type(f.rows[i]))])
    IN  SetColumn(g, "Lead Priority",
                  [i \in 1..Len(g.rows) |-> Str(determine_priority(g.rows[i]))])

Classify ==
    /\ pc = "classify"
    /\ loc' = [loc EXCEPT !.df = Classified(loc.df)]
    /\ pc' = "output"
    /\ UNCHANGED <<disk, ret, store, view, run, previous, classifier_row, derived, caller, now, args, raw, df, result, response>>

\* Step 7: columns selected and renamed, dates and values formatted
output_columns ==
    [PERMITNO |-> "Permit Number", PERMIT_TYPE |-> "Permit Type",
     APPLICATION_DATE |-> "Application Date", PERMIT_STATUS |-> "Status",
     CONSTRUCTION_VALUE |-> "Construction Value", WORK_TYPE |-> "Work Type",
     SUB_WORK_TYPE |-> "Sub Work Type", PERMIT_DESCRIPTION |-> "Description",
     FOLDERNAME |-> "Property Address"] @@
    ("Lead Priority" :> "Lead Priority" @@ "Contractor Type" :> "Contractor Type")

SourceOf(label) == CHOOSE col \in DOMAIN output_columns : output_columns[col] = label

FinalCell(label, c) ==
    IF label = "Application Date" THEN Str(Strftime(c.n))
    ELSE IF label = "Construction Value" THEN Str(FormatMoney(c.n))
    ELSE c

FinalRows(f) ==
    LET labels == {output_columns[col] : col \in DOMAIN output_columns \cap f.cols}
    IN  [i \in 1..Len(f.rows) |->
            [label \in labels |-> FinalCell(label, f.rows[i][SourceOf(label)])]]

\* order of Python text made of digits and '-'
CharRank(c) == IF c = "-" THEN 0 ELSE 1 + DigitOf(c)
RECURSIVE TextLeq(_, _)
TextLeq(a, b) ==
    IF a = <<>> THEN TRUE
    ELSE IF b = <<>> THEN FALSE
    ELSE IF Head(a) = Head(b) THEN TextLeq(Tail(a), Tail(b))
    ELSE CharRank(Head(a)) < CharRank(Head(b))

TextMin(cells) == LET S == {cells[i].s : i \in 1..Len(cells)}
                  IN  CHOOSE a \in S : \A b \in S : TextLeq(a, b)
TextMax(cells) == LET S == {cells[i].s : i \in 1..Len(cells)}
                  IN  CHOOSE a \in S : \A b \in S : TextLeq(b, a)

LabelColumn(rows, label) == [i \in 1..Len(rows) |-> rows[i][label]]

\* the summary reads the 'Permit Type' column whether or not it was selected
OutputRaises(f) == "PERMIT_TYPE" \notin f.cols

\* Mutant of Summary: the original count is taken after the rows without a
\* date were dropped
Summary_CountsAfterDrop(rows, l) ==
    [total_permits |-> Len(rows),
     priority_distribution |-> ValueCounts(LabelColumn(rows, "Lead Priority")),
     contractor_type_distribution |-> ValueCounts(LabelColumn(rows, "Contractor Type")),
     permit_type_distribution |-> ValueCounts(LabelColumn(rows, "Permit Type")),
     date_range |-> [start |-> TextMin(LabelColumn(rows, "Application Date")),
                     end |-> TextMax(LabelColumn(rows, "Application Date"))],
     data_quality |-> [original_records |-> l.total_before,
                       invalid_dates_removed |-> l.records_removed,
                       records_within_time_range |-> Len(rows)]]

Summary(rows, l) ==
    [total_permits |-> Len(rows),
     priority_distribution |-> ValueCounts(LabelColumn(rows, "Lead Priority")),
     contractor_type_distribution |-> ValueCounts(LabelColumn(rows, "Contractor Type")),
     permit_type_distribution |-> ValueCounts(LabelColumn(rows, "Permit Type")),
     date_range |-> [start |-> TextMin(LabelColumn(rows, "Application Date")),
                     end |-> TextMax(LabelColumn(rows, "Application Date"))],
     data_quality |-> [original_records |-> l.original_length,
                       invalid_dates_removed |-> l.records_removed,
                       records_within_time_range |-> Len(rows)]]

SuccessResult(f, l, t) ==
    [NoResult EXCEPT !.status = "success", !.keys = {"status", "summary", "permits", "metadata"},
                     !.summary = Summary(FinalRows(f), l),
                     !.permits = FinalRows(f),
                     !.timestamp = t]

PrepareOutput ==
    /\ pc = "output"
    /\ result' = IF OutputRaises(loc.df) THEN ExceptionResult ELSE SuccessResult(loc.df, loc, now)
    /\ pc' = "return"
    /\ UNCHANGED <<disk, ret, store, view, run, previous, classifier_row, derived, caller, now, args, raw, df, loc, response>>

\* the whole function, stage after stage
transform_permit_data ==
    \/ CheckInput
    \/ DateAnalysis
    \/ FillDefaults
    \/ ValidateDates
    \/ FilterRecent
    \/ Standardize
    \/ Classify
    \/ PrepareOutput

\* ---------------------------------------------------------------------
\* Routes (main.py)
\* ---------------------------------------------------------------------
NoPagination == [page |-> 0, limit |-> 0, total_pages |-> 0, total_records |-> 0,
                 has_next |-> FALSE, has_prev |-> FALSE, start_index |-> 0, end_index |-> 0]

\* body: the pipeline result when the route answers with it as it is
NoResponse == [code |-> 0, status |-> "none", error_type |-> "", body |-> NoResult,
               pagination |-> NoPagination, categorized_permits |-> <<>>]

ErrorResponse(code, etype) == [NoResponse EXCEPT !.code = code, !.status = "error", !.error_type = etype]

PassResponse(code, r) ==
    [NoResponse EXCEPT !.code = code, !.status = r.status, !.error_type = r.error_type, !.body = r]

\* /fetch-permit-data, up to the call of transform_permit_data
FetchPermitsStart ==
    /\ pc = "fetch_route"
    /\ IF raw.none
       THEN /\ response' = ErrorResponse(500, "api_error")
            /\ pc' = "responded"
       ELSE /\ response' = response
            /\ pc' = "enter"
    /\ UNCHANGED <<disk, ret, store, view, run, previous, classifier_row, derived, caller, now, args, raw, df, loc, result>>

\* /fetch-permit-data, after the call: the result is returned as JSON
FetchPermitsFinish ==
    /\ pc = "return" /\ caller = "fetch_route"
    /\ response' = PassResponse(200, result)
    /\ pc' = "responded"
    /\ UNCHANGED <<disk, ret, store, view, run, previous, classifier_row, derived, caller, now, args, raw, df, loc, result>>

\* /leads, up to the call of transform_permit_data
LeadsStart ==
    /\ pc = "leads_route"
    /\ IF args[1] < 1 \/ args[2] < 1 \/ args[2] > 100
       THEN /\ response' = ErrorResponse(400, "validation_error")
            /\ pc' = "responded"
       ELSE IF raw.none
       THEN /\ response' = ErrorResponse(500, "data_fetch_error")
            /\ pc' = "responded"
       ELSE /\ response' = response
            /\ pc' = "enter"
    /\ UNCHANGED <<disk, ret, store, view, run, previous, classifier_row, derived, caller, now, args, raw, df, loc, result>>

\* max(1, (total_permits + limit - 1) // limit)
\* Mutant of TotalPages: without the floor of one page
TotalPages_NoFloorOfOne(total, limit) == (total + limit - 1) \div limit

TotalPages(total, limit) ==
    IF (total + limit - 1) \div limit >= 1 THEN (total + limit - 1) \div limit ELSE 1

Min(a, b) == IF a <= b THEN a ELSE b

\* the permits of the page, grouped by contractor type
Paginated(permits, start_idx, end_idx) ==
    LET types == {permits[i]["Contractor Type"].s : i \in 1..Len(permits)}
        page  == SubSeq(permits, start_idx + 1, end_idx)
    IN  [t \in types |-> SelectSeq(page, LAMBDA p : p["Contractor Type"].s = t)]

\* float(text) of a query parameter: ok is FALSE where Python raises ValueError
ParseFloat(s) ==
    IF Strip(s) # <<>> /\ AllDigits(Strip(s))
    THEN [ok |-> TRUE, n |-> DigitsToNat(Strip(s))] ELSE [ok |-> FALSE, n |-> 0]

\* float(p['Construction Value'].replace('$', '').replace(',', ''))
MoneyToFloat(s) ==
    LET t      == SelectSeq(s, LAMBDA ch : ch \notin {"$", ","})
        signed == t # <<>> /\ Head(t) = "-"
        u      == IF signed THEN Tail(t) ELSE t
        whole  == SubSeq(u, 1, Len(u) - 3)
    IN  IF signed THEN 0 - DigitsToNat(whole) ELSE DigitsToNat(whole)

\* p['Status'].lower() raises AttributeError on a status that is not text
StatusFilterRaises(permits, f) ==
    f.statuses # {} /\ \E i \in 1..Len(permits) : permits[i]["Status"].k # "str"

\* the filters, applied one after the other; a bound that is not a number
\* is ignored
FilteredPermits(permits, f) ==
    LET by_type   == IF f.contractor_types = {} THEN permits
                     ELSE SelectSeq(permits, LAMBDA p : p["Contractor Type"].s \in f.contractor_types)
        by_status == IF f.statuses = {} THEN by_type
                     ELSE SelectSeq(by_type, LAMBDA p : Lower(p["Status"].s) \in {Lower(s) : s \in f.statuses})
        by_work   == IF f.work_types = {} THEN by_status
                     ELSE SelectSeq(by_status, LAMBDA p : p["Work Type"].k = "str"
                                                          /\ p["Work Type"].s \in f.work_types)
        by_min    == IF f.min_value = <<>> \/ ~ParseFloat(f.min_value).ok THEN by_work
                     ELSE SelectSeq(by_work, LAMBDA p :
                              MoneyToFloat(p["Construction Value"].s) >= ParseFloat(f.min_value).n)
    IN  IF f.max_value = <<>> \/ ~ParseFloat(f.max_value).ok THEN by_min
        ELSE SelectSeq(by_min, LAMBDA p :
                 MoneyToFloat(p["Construction Value"].s) <= ParseFloat(f.max_value).n)

LeadsPage(permits, page, limit) ==
    LET total_permits == Len(permits)
        total_pages   == TotalPages(total_permits, limit)
        start_idx     == (page - 1) * limit
        end_idx       == Min(start_idx + limit, total_permits)
    IN  IF page > total_pages
        THEN [ErrorResponse(400, "pagination_error") EXCEPT
                 !.pagination = [NoPagination EXCEPT !.page = page, !.limit = limit,
                                                     !.total_pages = total_pages,
                                                     !.total_records = total_permits]]
        ELSE [NoResponse EXCEPT
                 !.code = 200, !.status = "success",
                 !.pagination = [page |-> page, limit |-> limit, total_pages |-> total_pages,
                                 total_records |-> total_permits,
                                 has_next |-> page < total_pages, has_prev |-> page > 1,
                                 start_index |-> start_idx + 1, end_index |-> end_idx],
                 !.categorized_permits = Paginated(permits, start_idx, end_idx)]

\* /leads, after the call: a result that is not a success is answered as
\* it is with code 400; the permits of a success are filtered and paged
LeadsFinish ==
    /\ pc = "return" /\ caller = "leads_route"
    /\ response' = IF result.status # "success" THEN PassResponse(400, result)
                   ELSE IF StatusFilterRaises(result.permits, args[3])
                   THEN ErrorResponse(500, "processing_error")
                   ELSE LeadsPage(FilteredPermits(result.permits, args[3]), args[1], args[2])
    /\ pc' = "responded"
    /\ UNCHANGED <<disk, ret, store, view, run, previous, classifier_row, derived, caller, now, args, raw, df, loc, result>>
\* ---------------------------------------------------------------------
\* The classifier functions called on their own
\* ---------------------------------------------------------------------
NoRow == [c \in {} |-> Null]
NoDerived == [priority |-> <<>>, contractor_type |-> <<>>]

ClassifierWorkTypes ==
    {Str(<<"R", "e", "p", "a", "i", "r">>), Str(<<"R", "e", "n", "o", "v", "a", "t", "i", "o", "n">>), Str(<<"E", "X", "T", "E", "R", "I", "O", "R", " ", "A", "L", "T", "E", "R", "A", "T", "I", "O", "N">>), Str(<<"A", "d", "d", "i", "t", "i", "o", "n", " ", "t", "o", " ", "B", "u", "i", "l", "d", "i", "n", "g">>),
     Str(<<"G", "a", "r", "d", "e", "n", " ", "S", "u", "i", "t", "e">>), Str(<<"N", "e", "w", " ", "C", "o", "n", "s", "t", "r", "u", "c", "t", "i", "o", "n">>), Str(<<"I", "n", "t", "e", "r", "i", "o", "r", " ", "F", "i", "n", "i", "s", "h">>)}
ClassifierPermitTypes == {Str(<<"C", "o", "m", "m", "e", "r", "c", "i", "a", "l">>), Str(<<"R", "e", "s", "i", "d", "e", "n", "t", "i", "a", "l">>), Str(<<"M", "U", "L", "T", "I", "-", "R", "E", "S", "I", "D", "E", "N", "T", "I", "A", "L">>)}
ClassifierSubWorkTypes == {Str(<<"O", "f", "f", "i", "c", "e">>), Str(<<"P", "l", "u", "m", "b", "i", "n", "g">>), Str(<<"i", "n", "t", "e", "r", "i", "o", "r", " ", "f", "i", "n", "i", "s", "h">>)}
ClassifierDescriptions == {Str(<<"W", "a", "r", "e", "h", "o", "u", "s", "e">>), Str(<<"b", "a", "t", "h", "r", "o", "o", "m", " ", "r", "e", "m", "o", "d", "e", "l">>), Str(<<"N", "e", "w", " ", "P", "L", "U", "M", "B", "I", "N", "G">>)}
ClassifierValues ==
    {Num(1500000), Num(1000000), Num(999999), Num(500000), Num(499999), Num(0),
     Str(<<"7", "5", "0", "0", "0", "0">>), Str(<<"a", "b", "c">>), Null}

ClassifierRows ==
    { [WORK_TYPE |-> w, PERMIT_TYPE |-> p, SUB_WORK_TYPE |-> s, PERMIT_DESCRIPTION |-> d,
       CONSTRUCTION_VALUE |-> v] :
        w \in ClassifierWorkTypes, p \in ClassifierPermitTypes, s \in ClassifierSubWorkTypes,
        d \in ClassifierDescriptions, v \in ClassifierValues }

DeterminePriority ==
    /\ pc = "classifier"
    /\ derived.priority = <<>>
    /\ derived' = [derived EXCEPT !.priority = determine_priority(classifier_row)]
    /\ UNCHANGED <<disk, ret, store, view, run, previous, caller, now, args, raw, df, loc, pc, result, response, classifier_row>>

DetermineContractorType ==
    /\ pc = "classifier"
    /\ derived.contractor_type = <<>>
    /\ derived' = [derived EXCEPT !.contractor_type = determine_contractor_type(classifier_row)]
    /\ UNCHANGED <<disk, ret, store, view, run, previous, caller, now, args, raw, df, loc, pc, result, response, classifier_row>>

\* A caller that runs the function a second time on the batch it ran it on:
\* on the same DataFrame object, as the first run left it, or on an equal
\* batch built anew
CallAgain ==
    /\ pc = "return" /\ caller = "direct" /\ run = 1
    /\ run' = 2
    /\ previous' = result
    /\ result' = NoResult
    /\ loc' = NoLoc
    /\ df' \in {df, raw}
    /\ now' \in LaterNows
    /\ pc' = "enter"
    /\ UNCHANGED <<disk, ret, store, view, classifier_row, derived, caller, args, raw, response>>

\* ---------------------------------------------------------------------
\* Specifications
\* ---------------------------------------------------------------------
\* one run of the pipeline, called directly or through a route
Init ==
    /\ caller \in {"direct", "fetch_route", "leads_route"}
    /\ now \in Nows
    /\ args \in (IF caller = "leads_route" THEN LeadsArgs ELSE {<<1, 50, NoFilter>>})
    /\ raw \in (IF caller = "direct" THEN DirectInputs ELSE FetchedInputs)
    /\ df = raw
    /\ loc = NoLoc
    /\ pc = (IF caller = "direct" THEN "enter" ELSE caller)
    /\ result = NoResult
    /\ response = NoResponse
    /\ classifier_row = NoRow
    /\ derived = NoDerived
    /\ run = 1
    /\ previous = NoResult
    /\ disk = NoDisk
    /\ ret = NoReturn
    /\ store = <<>>
    /\ view = NoView

Next ==
    \/ transform_permit_data
    \/ CallAgain
    \/ FetchPermitsStart
    \/ FetchPermitsFinish
    \/ LeadsStart
    \/ LeadsFinish

Spec == Init /\ [][Next]_vars

\* The routes after the call, for every value that is not a success and
\* that transform_permit_data has a return statement for: the two
\* validation errors, the handler's error, the warning of lines 300-319
WarningLocs ==
    { [NoLoc EXCEPT !.original_length = n, !.records_removed = r,
                    !.total_before = n - r, !.total_after = 0] :
        n \in 1..(MaxRows + 1), r \in 0..MaxRows }

ReturnValues ==
    { ErrorResult("validation_error", "No permit data provided"),
      ErrorResult("validation_error", "No valid records after date validation"),
      ExceptionResult }
    \cup { WarningResult(l) : l \in {w \in WarningLocs : w.records_removed < w.original_length} }

InitConsumers ==
    /\ caller \in {"fetch_route", "leads_route"}
    /\ now \in Nows
    /\ args \in (IF caller = "leads_route" THEN {a \in LeadsArgs : a[1] >= 1 /\ a[2] \in 1..100}
                  ELSE {<<1, 50, NoFilter>>})
    /\ raw \in {f \in FetchedInputs : ~f.none /\ Len(f.rows) = 1 /\ f.cols = Columns}
    /\ df = raw
    /\ loc = NoLoc
    /\ pc = "return"
    /\ result \in ReturnValues
    /\ response = NoResponse
    /\ classifier_row = NoRow
    /\ derived = NoDerived
    /\ run = 1
    /\ previous = NoResult
    /\ disk = NoDisk
    /\ ret = NoReturn
    /\ store = <<>>
    /\ view = NoView

NextConsumers ==
    \/ FetchPermitsFinish
    \/ LeadsFinish

SpecConsumers == InitConsumers /\ [][NextConsumers]_vars

\* the classifier functions applied to one record
InitClassifier ==
    /\ caller = "direct"
    /\ now \in Nows
    /\ args = <<1, 50, NoFilter>>
    /\ raw = NoneDF
    /\ df = NoneDF
    /\ loc = NoLoc
    /\ pc = "classifier"
    /\ result = NoResult
    /\ response = NoResponse
    /\ classifier_row \in ClassifierRows
    /\ derived = NoDerived
    /\ run = 1
    /\ previous = NoResult
    /\ disk = NoDisk
    /\ ret = NoReturn
    /\ store = <<>>
    /\ view = NoView

NextClassifier ==
    \/ DeterminePriority
    \/ DetermineContractorType

SpecClassifier == InitClassifier /\ [][NextClassifier]_vars

\* ---------------------------------------------------------------------
\* Vocabulary of the properties
\* ---------------------------------------------------------------------
\* transform_permit_data has returned
Returned == result.status # "none"

\* the application date of row i of the batch as handed over
RawDate(i) == raw.rows[i]["APPLICATION_DATE"]
RawHasDates == ~raw.none /\ "APPLICATION_DATE" \in raw.cols

\* a date the validator is specified to accept: a typed date, a date-like
\* text, an epoch number
IsTextDate(c) == c.k = "str" /\ IsIsoDate(Strip(c.s))
Parseable(c) == c.k \in {"ts", "num"} \/ IsTextDate(c)

\* the calendar value of a typed or textual date
DateValue(c) == IF c.k = "ts" THEN c.n ELSE ParseDate(Strip(c.s))

RawIndices == IF raw.none THEN {} ELSE 1..Len(raw.rows)
ParseableRows == IF RawHasDates THEN {i \in RawIndices : Parseable(RawDate(i))} ELSE {}
EpochRows == IF RawHasDates THEN {i \in RawIndices : RawDate(i).k = "num"} ELSE {}

\* every date of the batch is a datetime or missing, as fetch_permit_data
\* delivers them
TypedDates == RawHasDates /\ \A i \in RawIndices : RawDate(i).k \in {"ts", "null", "nat"}

\* rows with a valid date that lies inside the window the filter applies
RowsInWindow == {i \in ParseableRows \ EpochRows :
                    DateValue(RawDate(i)) >= start_date /\ DateValue(RawDate(i)) <= end_date}

\* twelve months before a timestamp
TwelveMonthsBefore(t) == t - 1000000

Statuses == {"success", "warning", "error"}
Taxonomy == {"validation_error", "transformation_error", "data_fetch_error"}

\* ---------------------------------------------------------------------
\* Properties
\* ---------------------------------------------------------------------
\* C1: when the batch has at least one row with a valid application date
\* and no row inside the recency window, the result has status "warning"
\* and carries zero permits and a total permit count of 0.  Stated for the
\* batches whose dates are typed.
C1_WarningWhenNothingRecent ==
    (Returned /\ TypedDates /\ ParseableRows # {} /\ RowsInWindow = {})
        => /\ result.status = "warning"
           /\ "permits" \in result.keys /\ result.permits = <<>>
           /\ "summary" \in result.keys /\ result.summary.total_permits = 0

\* C2: whatever the input, what the function hands back is a structured
\* result whose status is success, warning or error: an exception raised
\* in a stage ends in the handler's error result and never reaches the
\* caller.
C2_AlwaysStructuredResult ==
    /\ result.status \in Statuses \cup {"none"}
    /\ pc = "return" => result.status \in Statuses /\ "status" \in result.keys
    /\ (pc = "responded" /\ ~raw.none /\ response.error_type # "validation_error")
          => result.status \in Statuses

\* C2 witness: a run on a wrongly typed column has returned through the
\* exception handler.
C2_Witness ==
    /\ pc = "return" /\ result = ExceptionResult
    /\ \E col \in text_columns \cap raw.cols : IsNumericColumn(Column(raw, col))

\* C3: if no row of a non-empty batch has a parseable application date, the
\* result is the error validation_error "No valid records after date
\* validation", without permits.
C3_NoValidDatesIsValidationError ==
    (Returned /\ ~raw.none /\ ~IsEmpty(raw) /\ ParseableRows = {})
        => /\ result.status = "error"
           /\ result.error_type = "validation_error"
           /\ result.message = "No valid records after date validation"
           /\ result.permits = <<>>

\* C4: if the records have no APPLICATION_DATE field at all, the result is
\* an error of type validation_error, whatever the other fields hold.
C4_MissingDateFieldIsValidationError ==
    (Returned /\ ~raw.none /\ "APPLICATION_DATE" \notin raw.cols)
        => result.status = "error" /\ result.error_type = "validation_error"

\* C4 witness: a non-empty batch without the field went through date
\* validation and was rejected there.
C4_Witness ==
    /\ pc = "return" /\ ~raw.none /\ Len(raw.rows) > 0 /\ "APPLICATION_DATE" \notin raw.cols
    /\ result.message = "No valid records after date validation"
    /\ loc.records_removed = Len(raw.rows)

\* C5: a result is a success exactly when at least one row passes date
\* validation and the recency filter, and a success carries a non-empty
\* permits list whose length is summary.total_permits.  Stated for the
\* batches whose dates are typed.
C5_SuccessIffPermitProduced ==
    (Returned /\ TypedDates)
        => /\ (result.status = "success") <=> (RowsInWindow # {})
           /\ result.status = "success"
                 => Len(result.permits) >= 1 /\ result.summary.total_permits = Len(result.permits)

\* C6: every error result of the pipeline and of the routes carries an
\* error_type of the taxonomy (an exception inside a stage being a
\* transformation_error).
C6_ErrorTypesInTaxonomy ==
    /\ result.status = "error" => result.error_type \in Taxonomy
    /\ response.status = "error" => response.error_type \in Taxonomy

\* C7: the recency filter retains exactly the validated rows dated on or
\* after the cutoff, the cutoff being twelve months before the reference
\* date, which is the current time or the latest application date of the
\* batch.
C7_RetainsLastTwelveMonths ==
    pc = "clean" =>
        LET validated == SelectSeq(df.rows, HasDate)
            latest    == SeriesMax(Column(df, "APPLICATION_DATE")).n
        IN  \E reference \in {now, latest} :
                loc.df.rows = SelectSeq(validated,
                                  LAMBDA r : r["APPLICATION_DATE"].n >= TwelveMonthsBefore(reference))

\* C8: application dates are accepted as epoch numbers, as date-like text
\* and as typed dates: when dates arrive as text or as numbers, every row
\* of the batch enters date validation and only the rows whose value cannot
\* be parsed are removed by it.
C8_DatesOfEveryTypeAccepted ==
    (Returned /\ RawHasDates /\ \E i \in ParseableRows : RawDate(i).k \in {"str", "num"})
        => /\ loc.original_length = Len(raw.rows)
           /\ loc.records_removed = Len(raw.rows) - Cardinality(ParseableRows)

\* the rule table of the priority, in its order
PriorityRules(r) ==
    LET work_type   == Lower(r.WORK_TYPE.s)
        permit_type == Lower(r.PERMIT_TYPE.s)
        value       == r.CONSTRUCTION_VALUE.n
    IN  << <<value >= 1000000, High>>,
           <<\E t \in {<<"r", "e", "n", "o", "v", "a", "t", "i", "o", "n">>, <<"a", "l", "t", "e", "r", "a", "t", "i", "o", "n">>, <<"a", "d", "d", "i", "t", "i", "o", "n">>} : Contains(work_type, t), High>>,
           <<Contains(work_type, <<"n", "e", "w", " ", "c", "o", "n", "s", "t", "r", "u", "c", "t", "i", "o", "n">>) /\ Contains(permit_type, <<"r", "e", "s", "i", "d", "e", "n", "t", "i", "a", "l">>), High>>,
           <<value >= 500000, Medium>>,
           <<Contains(permit_type, <<"r", "e", "s", "i", "d", "e", "n", "t", "i", "a", "l">>), Medium>>,
           <<TRUE, Low>> >>

\* the rule table of the contractor type, in its order
ContractorRules(r) ==
    LET work_type     == Lower(r.WORK_TYPE.s)
        description   == Lower(r.PERMIT_DESCRIPTION.s)
        sub_work_type == Lower(r.SUB_WORK_TYPE.s)
    IN  << <<\E t \in {<<"g", "a", "r", "d", "e", "n", " ", "s", "u", "i", "t", "e">>, <<"a", "d", "d", "i", "t", "i", "o", "n", " ", "t", "o", " ", "b", "u", "i", "l", "d", "i", "n", "g">>, <<"a", "d", "d", "i", "t", "i", "o", "n">>} : Contains(work_type, t),
             GeneralContractors>>,
           <<\E t \in {<<"b", "a", "t", "h", "r", "o", "o", "m">>, <<"p", "l", "u", "m", "b", "i", "n", "g">>} : Contains(description, t) \/ Contains(sub_work_type, t),
             Plumbers>>,
           <<Contains(work_type, <<"i", "n", "t", "e", "r", "i", "o", "r", " ", "f", "i", "n", "i", "s", "h">>) \/ Contains(sub_work_type, <<"i", "n", "t", "e", "r", "i", "o", "r", " ", "f", "i", "n", "i", "s", "h">>),
             Electricians>>,
           <<TRUE, General>> >>

\* outcome of the first rule that matches
FirstMatch(rules) ==
    rules[CHOOSE i \in 1..Len(rules) : rules[i][1] /\ \A j \in 1..(i - 1) : ~rules[j][1]][2]

\* C9: determine_priority returns the outcome of the first matching rule of
\* its table, case-insensitively, for every work type, permit type and
\* numeric value; a value of 1,000,000 or more gives High whatever the text.
C9_PriorityFirstMatchWins ==
    (derived.priority # <<>> /\ classifier_row.CONSTRUCTION_VALUE.k = "num")
        => /\ derived.priority = FirstMatch(PriorityRules(classifier_row))
           /\ classifier_row.CONSTRUCTION_VALUE.n >= 1000000 => derived.priority = High

\* C9 witness: value 1,500,000 with work type Repair and permit type
\* Commercial was classified High.
C9_Witness ==
    /\ derived.priority = High
    /\ classifier_row.CONSTRUCTION_VALUE = Num(1500000)
    /\ classifier_row.WORK_TYPE.s = <<"R", "e", "p", "a", "i", "r">>
    /\ classifier_row.PERMIT_TYPE.s = <<"C", "o", "m", "m", "e", "r", "c", "i", "a", "l">>

\* C10: determine_contractor_type returns the outcome of the first matching
\* rule of its table, case-insensitively, for every combination of the text
\* fields; a work type containing "addition" gives General Contractors even
\* when the description mentions "bathroom".
C10_ContractorFirstMatchWins ==
    derived.contractor_type # <<>>
        => /\ derived.contractor_type = FirstMatch(ContractorRules(classifier_row))
           /\ (Contains(Lower(classifier_row.WORK_TYPE.s), <<"a", "d", "d", "i", "t", "i", "o", "n">>)
                 => derived.contractor_type = GeneralContractors)

\* C10 witness: work type "Addition to Building" with the description
\* "bathroom remodel" was classified General Contractors.
C10_Witness ==
    /\ derived.contractor_type = GeneralContractors
    /\ classifier_row.WORK_TYPE.s = <<"A", "d", "d", "i", "t", "i", "o", "n", " ", "t", "o", " ", "B", "u", "i", "l", "d", "i", "n", "g">>
    /\ classifier_row.PERMIT_DESCRIPTION.s = <<"b", "a", "t", "h", "r", "o", "o", "m", " ", "r", "e", "m", "o", "d", "e", "l">>


\* ---------------------------------------------------------------------
\* Vocabulary of the properties of the output
\* ---------------------------------------------------------------------
Succeeded == result.status = "success"

PermitIndices == 1..Len(result.permits)

\* position in the output of row i of the batch, when the rows inside the
\* window come out in their order
PermitOf(i) == Cardinality({j \in RowsInWindow : j <= i})

\* every text column of the batch holds text or nothing, and the permit
\* type is there: the stages other than value coercion have what they read
TextColumnsAreText ==
    /\ "PERMIT_TYPE" \in raw.cols
    /\ \A col \in text_columns \cap raw.cols :
          \A i \in RawIndices : raw.rows[i][col].k \in {"str", "null"}

\* a valid calendar date written YYYY-MM-DD
IsCalendarDate(s) == IsIsoDate(s) /\ DigitsToNat(SubSeq(s, 9, 10)) \in 1..31

\* an amount as the output writes it, not below zero
IsNonNegativeMoney(s) == Len(s) >= 2 /\ s[1] = "$" /\ IsDigit(s[2])

\* the value of row i is missing (no value, or no such field) or is text
\* that is not a number
ValueMissingOrUnparsable(i) ==
    \/ "CONSTRUCTION_VALUE" \notin raw.cols
    \/ IsNa(raw.rows[i]["CONSTRUCTION_VALUE"])
    \/ raw.rows[i]["CONSTRUCTION_VALUE"].k = "str" /\ ToNumeric(raw.rows[i]["CONSTRUCTION_VALUE"]).k # "num"

\* text without currency symbol and thousands separators
StripMoney(s) == SelectSeq(s, LAMBDA ch : ch \notin {"$", ","})

\* an amount written as text with a currency symbol or separators
IsMoneyText(c) ==
    /\ c.k = "str"
    /\ \E k \in 1..Len(c.s) : c.s[k] \in {"$", ","}
    /\ StripMoney(Strip(c.s)) # <<>> /\ AllDigits(StripMoney(Strip(c.s)))

MoneyTextRows ==
    IF "CONSTRUCTION_VALUE" \in raw.cols
    THEN {i \in RowsInWindow : IsMoneyText(raw.rows[i]["CONSTRUCTION_VALUE"])} ELSE {}

\* a default as the output shows it
DefaultShown(col) ==
    IF col = "CONSTRUCTION_VALUE" THEN Str(<<"$", "0", ".", "0", "0">>) ELSE DEFAULT_VALUES[col]

\* ---------------------------------------------------------------------
\* Properties of the output
\* ---------------------------------------------------------------------
\* C11: in every success result each permit's Lead Priority is High, Medium
\* or Low and its Contractor Type is General Contractors, Plumbers,
\* Electricians or General, never a missing value or another text.
C11_ClassificationsEnumerated ==
    Succeeded =>
        \A i \in PermitIndices :
            /\ result.permits[i]["Lead Priority"].k = "str"
            /\ result.permits[i]["Lead Priority"].s \in {High, Medium, Low}
            /\ result.permits[i]["Contractor Type"].k = "str"
            /\ result.permits[i]["Contractor Type"].s \in {GeneralContractors, Plumbers, Electricians, General}

\* C11 witness: a success whose permit came from a record without a value
\* and got the two default classes, Low and General.
C11_Witness ==
    /\ pc = "return" /\ Succeeded
    /\ \E i \in RowsInWindow :
          /\ IsNa(raw.rows[i]["CONSTRUCTION_VALUE"])
          /\ result.permits[PermitOf(i)]["Lead Priority"].s = Low
          /\ result.permits[PermitOf(i)]["Contractor Type"].s = General

\* C12: every permit of the output has a construction value of 0 or more,
\* whatever number the record carried.
C12_ValueNeverNegative ==
    Succeeded =>
        \A i \in PermitIndices : IsNonNegativeMoney(result.permits[i]["Construction Value"].s)

\* C13: no permit of the output has a missing or unparsable application
\* date: every output date is a valid calendar date, that of a record of the
\* batch, and the records without a valid date are all excluded and counted
\* as removed.
C13_NoPermitWithoutValidDate ==
    Succeeded =>
        /\ \A i \in PermitIndices :
              /\ result.permits[i]["Application Date"].k = "str"
              /\ IsCalendarDate(result.permits[i]["Application Date"].s)
              /\ \E j \in ParseableRows :
                    result.permits[i]["Application Date"].s = Strftime(DateValue(RawDate(j)))
        /\ Len(result.permits) <= Cardinality(ParseableRows)
        /\ result.summary.data_quality.invalid_dates_removed
              = Len(raw.rows) - Cardinality(ParseableRows)

\* C13 witness: a success on a batch one record of which had no date; the
\* record is not among the permits.
C13_Witness ==
    /\ pc = "return" /\ Succeeded
    /\ \E i \in RawIndices : IsNa(RawDate(i))
    /\ result.summary.data_quality.invalid_dates_removed = 1
    /\ Len(result.permits) = Len(raw.rows) - 1

\* C14: a row whose construction value is missing or unparsable is kept
\* with the value 0: coercing the value never raises and never changes the
\* number of rows, so the output has one permit per row that passed date
\* validation and the filter.  Stated for the batches whose dates are typed
\* and whose text columns hold text.
C14_MissingValueKeptAsZero ==
    (Returned /\ TypedDates /\ TextColumnsAreText
              /\ \E i \in RowsInWindow : ValueMissingOrUnparsable(i))
        => /\ Succeeded
           /\ Len(result.permits) = Cardinality(RowsInWindow)
           /\ \A i \in RowsInWindow :
                 ValueMissingOrUnparsable(i)
                    => result.permits[PermitOf(i)]["Construction Value"].s = <<"$", "0", ".", "0", "0">>

\* C15: a construction value written as text with a currency symbol or
\* thousands separators is parsed to its number: the permit shows that
\* amount and gets the priority of that amount.
C15_MoneyTextParsed ==
    (Returned /\ TypedDates /\ TextColumnsAreText /\ MoneyTextRows # {})
        => /\ Succeeded
           /\ \A i \in MoneyTextRows :
                 LET amount == DigitsToNat(StripMoney(Strip(raw.rows[i]["CONSTRUCTION_VALUE"].s)))
                 IN  /\ result.permits[PermitOf(i)]["Construction Value"].s = FormatMoney(amount)
                     /\ amount >= 1000000 => result.permits[PermitOf(i)]["Lead Priority"].s = High

\* C16: every field of the default-value table that the batch lacks is
\* filled from the table and no record is dropped for it: a batch without
\* one of these fields whose dates are valid and recent gives a success
\* with one permit per such row, each showing the default.
C16_AbsentFieldsDefaulted ==
    (Returned /\ TypedDates /\ RowsInWindow # {}
              /\ (DOMAIN DEFAULT_VALUES) \ raw.cols # {}
              /\ \A col \in text_columns \cap raw.cols :
                    \A i \in RawIndices : raw.rows[i][col].k \in {"str", "null"})
        => /\ Succeeded
           /\ Len(result.permits) = Cardinality(RowsInWindow)
           /\ \A col \in (DOMAIN DEFAULT_VALUES) \ raw.cols :
                 \A i \in PermitIndices :
                    result.permits[i][output_columns[col]] = DefaultShown(col)

\* C17: the permits of a success result are ordered by application date,
\* most recent first, whatever the order of the input rows.
C17_PermitsNewestFirst ==
    Succeeded =>
        \A i, j \in PermitIndices :
            i < j => TextLeq(result.permits[j]["Application Date"].s,
                             result.permits[i]["Application Date"].s)

\* C18: a second run on the same batch gives the same status, the same
\* summary and the same permits in the same order as the first, whatever
\* the time of either run, whether the second run gets the very object the
\* first ran on or an equal batch.
C18_SecondRunSameOutcome ==
    (run = 2 /\ Returned)
        => /\ result.status = previous.status
           /\ result.summary = previous.summary
           /\ result.permits = previous.permits

\* C18 witness: a second run, at another time and on the object the first
\* run had written into, has returned a success with two permits.
C18_Witness ==
    /\ run = 2 /\ pc = "return" /\ Succeeded
    /\ df # raw
    /\ now \notin Nows
    /\ Len(result.permits) = 2

\* C19: the batch the caller handed in is left as it was by the run: no
\* value filled, no column added or retyped, on every outcome.
C19_CallerBatchUnchanged ==
    Returned => df = raw

\* the order of the positions inside transform_permit_data
NextStage ==
    [enter |-> "analysis", analysis |-> "defaults", defaults |-> "dates", dates |-> "filter",
     filter |-> "clean", clean |-> "classify", classify |-> "output", output |-> "return"]

\* no row of the frame has a date
NoValidDate(f) ==
    "APPLICATION_DATE" \notin f.cols
       \/ \A i \in 1..Len(f.rows) : IsNa(ToDatetime(f.rows[i]["APPLICATION_DATE"]))

\* C20: the stages run in the order defaults, date validation, recency
\* filter, standardization, classification, aggregation, each step going to
\* the next stage or to the return; after a fatal check (empty input, no
\* valid date) the function returns an error at once and no row is
\* classified, and the rows that are classified and aggregated are rows
\* that passed date validation and the filter.
C20_StagesInOrderNoneAfterFatal ==
    [][ /\ pc \in DOMAIN NextStage => pc' \in {NextStage[pc], "return"}
        /\ (pc = "enter" /\ (df.none \/ IsEmpty(df)))
              => pc' = "return" /\ result'.status = "error"
        /\ (pc = "dates" /\ NoValidDate(df))
              => pc' = "return" /\ result'.status = "error"
        /\ (pc' = "return" /\ result'.error_type = "validation_error")
              => loc'.df.none \/ "Lead Priority" \notin loc'.df.cols
        /\ pc' \in {"classify", "output"}
              => /\ Len(loc'.df.rows) = loc'.total_after
                 /\ \A i \in 1..Len(loc'.df.rows) :
                       HasDate(loc'.df.rows[i]) /\ InWindow(loc'.df.rows[i])
      ]_vars

\* C20 witness: a batch whose dates are all NaT was rejected by date
\* validation and none of its rows was classified.
C20_Witness ==
    /\ pc = "return" /\ TypedDates /\ Len(raw.rows) = 2
    /\ result.message = "No valid records after date validation"
    /\ "Lead Priority" \notin loc.df.cols /\ "Contractor Type" \notin loc.df.cols

\* ---------------------------------------------------------------------
\* Properties of the routes
\* ---------------------------------------------------------------------
\* the route has called fetch_permit_data (the /leads route validates page
\* and limit first)
FetchCalled ==
    \/ caller = "fetch_route"
    \/ caller = "leads_route" /\ args[1] >= 1 /\ args[2] >= 1 /\ args[2] <= 100

\* C21: when fetch_permit_data returns None, the routes /fetch-permit-data
\* and /leads answer with an error, transform_permit_data and the later
\* steps are never entered, and the failure is reported as a fetch error
\* (data_fetch_error).
C21_FetchFailureStopsRoute ==
    (raw.none /\ FetchCalled)
        => /\ pc \in {caller, "responded"}
           /\ result = NoResult /\ loc = NoLoc
           /\ pc = "responded"
                 => /\ response.status = "error"
                    /\ response.error_type = "data_fetch_error"
                    /\ response.categorized_permits = <<>>

CountOf(label, v) ==
    Cardinality({i \in PermitIndices : result.permits[i][label] = Str(v)})

\* sum of the counts of a distribution
RECURSIVE SumOver(_, _)
SumOver(dist, keys) ==
    IF keys = {} THEN 0
    ELSE LET k == CHOOSE x \in keys : TRUE
         IN  dist[k] + SumOver(dist, keys \ {k})

\* the distribution maps each value present among the permits to its count
\* and its counts add up to the number of permits
DistributionAgrees(dist, label) ==
    /\ \A i \in PermitIndices :
          /\ result.permits[i][label].k = "str"
          /\ result.permits[i][label].s \in DOMAIN dist
    /\ \A v \in DOMAIN dist : dist[v] = CountOf(label, v) /\ dist[v] >= 1
    /\ SumOver(dist, DOMAIN dist) = result.summary.total_permits

InvalidDateRows == RawIndices \ ParseableRows

\* C25: the diagnostic counts of a success result are exact:
\* original_records is the number of input rows, invalid_dates_removed the
\* number of input rows whose date is missing or unparsable,
\* records_within_time_range is total_permits, and original_records -
\* invalid_dates_removed >= records_within_time_range.
C25_DiagnosticCountsExact ==
    Succeeded =>
        LET q == result.summary.data_quality
        IN  /\ q.original_records = Len(raw.rows)
            /\ q.invalid_dates_removed = Cardinality(InvalidDateRows)
            /\ q.records_within_time_range = result.summary.total_permits
            /\ q.original_records - q.invalid_dates_removed >= q.records_within_time_range

\* C25 witness: a success on two rows, one without a date: two original
\* records, one removed, one within the range.
C25_Witness ==
    /\ pc = "return" /\ Succeeded
    /\ Len(raw.rows) = 2 /\ Cardinality(InvalidDateRows) = 1
    /\ result.summary.data_quality.original_records = 2
    /\ result.summary.data_quality.invalid_dates_removed = 1
    /\ result.summary.data_quality.records_within_time_range = 1

\* ---------------------------------------------------------------------
\* Properties of the pagination
\* ---------------------------------------------------------------------
\* the /leads request was answered after filtering a success
LeadsPaged ==
    /\ pc = "responded" /\ caller = "leads_route" /\ Succeeded
    /\ ~StatusFilterRaises(result.permits, args[3])

\* ceil(n / l)
CeilDiv(n, l) == CHOOSE k \in 0..n : k * l >= n /\ (k = 0 \/ (k - 1) * l < n)

\* positions of the list that page q of size l shows
PagePositions(q, l, n) == {k \in 1..n : (q - 1) * l + 1 <= k /\ k <= q * l}

\* the permits of an answer, whatever their group
ShownCount(groups) == SumOver([t \in DOMAIN groups |-> Len(groups[t])], DOMAIN groups)

\* C26: over a filtered list of N permits and a limit L in 1..100,
\* total_pages = max(1, ceil(N/L)); a page p in 1..total_pages returns
\* exactly the permits at positions (p-1)*L+1 .. min(p*L, N), at most L of
\* them, grouped by contractor type, so that the pages 1..total_pages show
\* every permit exactly once; a page beyond total_pages is answered with a
\* pagination_error and no permits; has_next holds exactly when p <
\* total_pages and has_prev exactly when p > 1.
C26_PaginationExact ==
    LeadsPaged =>
        LET list  == FilteredPermits(result.permits, args[3])
            N     == Len(list)
            p     == args[1]
            L     == args[2]
            total == IF CeilDiv(N, L) >= 1 THEN CeilDiv(N, L) ELSE 1
            shown == PagePositions(p, L, N)
        IN  /\ \A k \in 1..N : Cardinality({q \in 1..total : k \in PagePositions(q, L, N)}) = 1
            /\ IF p > total
               THEN /\ response.status = "error"
                    /\ response.error_type = "pagination_error"
                    /\ response.categorized_permits = <<>>
               ELSE /\ response.status = "success"
                    /\ response.pagination.total_pages = total
                    /\ response.pagination.total_records = N
                    /\ response.pagination.has_next = (p < total)
                    /\ response.pagination.has_prev = (p > 1)
                    /\ ShownCount(response.categorized_permits) = Cardinality(shown)
                    /\ Cardinality(shown) <= L
                    /\ \A t \in DOMAIN response.categorized_permits :
                          response.categorized_permits[t]
                             = SelectSeq([i \in 1..Cardinality(shown) |-> list[(p - 1) * L + i]],
                                         LAMBDA x : x["Contractor Type"].s = t)
                    /\ \A k \in shown : list[k]["Contractor Type"].s \in DOMAIN response.categorized_permits

\* C26 witness: page 2 of 2 of a list of two permits, limit 1: the second
\* permit alone, a previous page and no next one.
C26_Witness ==
    /\ LeadsPaged /\ args[1] = 2 /\ args[2] = 1
    /\ Len(result.permits) = 2
    /\ response.pagination.total_pages = 2
    /\ response.pagination.has_prev /\ ~response.pagination.has_next
    /\ ShownCount(response.categorized_permits) = 1

\* ---------------------------------------------------------------------
\* The lead application (main.py, models.py)
\* ---------------------------------------------------------------------
\* bound on the leads submitted through the form
MaxLeads == 3

\* generate_sample_data(num_samples=25)
num_samples == 25

project_types ==
    << <<"R", "e", "s", "i", "d", "e", "n", "t", "i", "a", "l", " ", "B", "u", "i", "l", "d", "i", "n", "g", " ", "(", "H", "o", "u", "s", "e", ")">>, <<"C", "o", "m", "m", "e", "r", "c", "i", "a", "l", " ", "B", "u", "i", "l", "d", "i", "n", "g">>, <<"I", "n", "d", "u", "s", "t", "r", "i", "a", "l", " ", "B", "u", "i", "l", "d", "i", "n", "g">>,
       <<"R", "e", "s", "i", "d", "e", "n", "t", "i", "a", "l", " ", "A", "l", "t", "e", "r", "a", "t", "i", "o", "n">>, <<"N", "o", "n", "-", "R", "e", "s", "i", "d", "e", "n", "t", "i", "a", "l", " ", "A", "l", "t", "e", "r", "a", "t", "i", "o", "n">> >>

work_types == << <<"N", "e", "w", " ", "C", "o", "n", "s", "t", "r", "u", "c", "t", "i", "o", "n">>, <<"A", "d", "d", "i", "t", "i", "o", "n", " ", "t", "o", " ", "B", "u", "i", "l", "d", "i", "n", "g">>, <<"I", "n", "t", "e", "r", "i", "o", "r", " ", "A", "l", "t", "e", "r", "a", "t", "i", "o", "n">>,
                 <<"E", "x", "t", "e", "r", "i", "o", "r", " ", "A", "l", "t", "e", "r", "a", "t", "i", "o", "n">>, <<"R", "e", "n", "o", "v", "a", "t", "i", "o", "n">> >>

locations == << <<"T", "o", "r", "o", "n", "t", "o", ",", " ", "O", "N">>, <<"V", "a", "n", "c", "o", "u", "v", "e", "r", ",", " ", "B", "C">>, <<"M", "o", "n", "t", "r", "e", "a", "l", ",", " ", "Q", "C">>, <<"C", "a", "l", "g", "a", "r", "y", ",", " ", "A", "B">>,
               <<"O", "t", "t", "a", "w", "a", ",", " ", "O", "N">>, <<"E", "d", "m", "o", "n", "t", "o", "n", ",", " ", "A", "B">>, <<"W", "i", "n", "n", "i", "p", "e", "g", ",", " ", "M", "B">>, <<"Q", "u", "e", "b", "e", "c", " ", "C", "i", "t", "y", ",", " ", "Q", "C">>,
               <<"H", "a", "m", "i", "l", "t", "o", "n", ",", " ", "O", "N">>, <<"V", "i", "c", "t", "o", "r", "i", "a", ",", " ", "B", "C">>, <<"H", "a", "l", "i", "f", "a", "x", ",", " ", "N", "S">>, <<"S", "a", "s", "k", "a", "t", "o", "o", "n", ",", " ", "S", "K">> >>

sample_statuses == << <<"P", "e", "n", "d", "i", "n", "g">>, <<"A", "p", "p", "r", "o", "v", "e", "d">>, <<"I", "n", " ", "R", "e", "v", "i", "e", "w">>, <<"C", "l", "o", "s", "e", "d">>, <<"E", "x", "p", "i", "r", "e", "d">> >>

\* (min_value, max_value) of the construction value, by project type
base_values ==
    << <<500000, 2000000>>, <<1000000, 5000000>>, <<2000000, 10000000>>,
       <<50000, 300000>>, <<100000, 1000000>> >>

\* a row of the table `lead`, by the columns the routes read; a column the
\* constructor was not given holds its default or NULL
LeadRow(permit_number, project_type, location, value_range, construction_value, permit_status, work_type, submission_date) ==
    [permit_number |-> permit_number, project_type |-> project_type, location |-> location,
     value_range |-> value_range, construction_value |-> construction_value,
     permit_status |-> permit_status, work_type |-> work_type,
     submission_date |-> submission_date]

\* the outcomes of the random draws of one call of generate_sample_data
Seeds == {0, 1, 2}

\* generate_sample_data: no value_range is given to the constructor
generate_sample_data(n, seed, t) ==
    [i \in 1..n |->
        LET k == ((seed + i) % Len(project_types)) + 1
        IN  LeadRow(Str(<<"B", "P">> \o NatToDigits(t \div 1000000) \o ZeroPad(NatToDigits(i), 4)),
                    Str(project_types[k]),
                    Str(locations[((seed * i) % Len(locations)) + 1]),
                    Null,
                    Num(base_values[k][(seed % 2) + 1]),
                    Str(sample_statuses[((seed + 2 * i) % Len(sample_statuses)) + 1]),
                    Str(work_types[((seed + 3 * i) % Len(work_types)) + 1]),
                    Ts(t - 100 * ((seed + i) % 90)))]

\* the constraints of the model Lead: project_type, location, value_range
\* and submission_date are NOT NULL, permit_number is unique among the rows
\* that have one
IntegrityError(table, pending) ==
    LET all == table \o pending
    IN  \/ \E i \in 1..Len(pending) :
              \E col \in {"project_type", "location", "value_range", "submission_date"} :
                  IsNa(pending[i][col])
        \/ \E i, j \in 1..Len(all) :
              i # j /\ ~IsNa(all[i].permit_number) /\ all[i].permit_number = all[j].permit_number

\* a request: the form fields of POST / and the filters of /dashboard
NoRequest == [project_type |-> <<>>, location |-> <<>>, value_range |-> <<>>,
              status |-> <<>>, work_type |-> <<>>, min_value |-> Null, max_value |-> Null]

Forms ==
    { [NoRequest EXCEPT !.project_type = p, !.location = l, !.value_range = v] :
        p \in {<<>>, project_types[2], project_types[4]},
        l \in {<<>>, locations[1], locations[2]},
        v \in {<<>>, <<"1", "0", "0", "k", "-", "5", "0", "0", "k">>} }

\* the filters drawn for /dashboard (no date_from / date_to among them)
DashboardFilters ==
    { NoRequest,
      [NoRequest EXCEPT !.project_type = project_types[2]],
      [NoRequest EXCEPT !.location = locations[2]],
      [NoRequest EXCEPT !.status = <<"A", "p", "p", "r", "o", "v", "e", "d">>],
      [NoRequest EXCEPT !.work_type = <<"R", "e", "n", "o", "v", "a", "t", "i", "o", "n">>],
      [NoRequest EXCEPT !.min_value = Num(0)],
      [NoRequest EXCEPT !.min_value = Num(100000), !.max_value = Num(5000000)] }

\* the answer to a request, with the request and the table as it was when
\* the request came in
Answer(route, request, before) ==
    [route |-> route, code |-> 0, flash |-> "none", raised |-> "none",
     total_leads |-> 0, total_value |-> 0, avg_value |-> 0,
     request |-> request, store_before |-> before]

\* SQL comparison of a column with a filter: a NULL never matches
Matches(lead, f) ==
    /\ f.project_type # <<>> => lead.project_type = Str(f.project_type)
    /\ f.location # <<>> => lead.location = Str(f.location)
    /\ f.status # <<>> => lead.permit_status = Str(f.status)
    /\ f.work_type # <<>> => lead.work_type = Str(f.work_type)
    /\ ~IsNa(f.min_value) =>
          (~IsNa(lead.construction_value) /\ lead.construction_value.n >= f.min_value.n)
    /\ ~IsNa(f.max_value) =>
          (~IsNa(lead.construction_value) /\ lead.construction_value.n <= f.max_value.n)

\* any([...]) over the filter parameters: an absent one and a 0.0 are falsy
AnyFilter(f) ==
    \/ f.project_type # <<>> \/ f.location # <<>> \/ f.status # <<>> \/ f.work_type # <<>>
    \/ (~IsNa(f.min_value) /\ f.min_value.n # 0)
    \/ (~IsNa(f.max_value) /\ f.max_value.n # 0)

RECURSIVE SumValues(_)
SumValues(leads) ==
    IF leads = <<>> THEN 0 ELSE Head(leads).construction_value.n + SumValues(Tail(leads))

\* sum(lead.construction_value ...) adds a None to a number
SumRaises(leads) == \E i \in 1..Len(leads) : IsNa(leads[i].construction_value)

\* sorted(set(...)) and min(...)/max(...) compare a None with another value
SortedRaises(leads, col) ==
    LET values == {leads[i][col] : i \in 1..Len(leads)}
    IN  Null \in values /\ Cardinality(values) >= 2

MinMaxRaises(leads) ==
    Len(leads) >= 2 /\ \E i \in 1..Len(leads) : IsNa(leads[i].construction_value)

StatisticsRaise(filtered, all_leads) ==
    \/ SumRaises(filtered)
    \/ \E col \in {"project_type", "location", "permit_status", "work_type"} :
          SortedRaises(all_leads, col)
    \/ MinMaxRaises(all_leads)

\* index(): GET renders the form; POST validates the three fields and adds
\* one lead
Index ==
    /\ pc = "app"
    /\ \E method \in {"GET", "POST"}, form \in Forms :
         LET a == Answer("index", form, store)
             lead == LeadRow(Null, Str(form.project_type), Str(form.location),
                             Str(<<"C", "A", "D", " ">> \o form.value_range), Null,
                             Str(<<"P", "e", "n", "d", "i", "n", "g">>), Null, Ts(now))
         IN  IF method = "GET"
             THEN /\ form = NoRequest
                  /\ view' = [a EXCEPT !.code = 200]
                  /\ store' = store
             ELSE IF form.project_type = <<>> \/ form.location = <<>> \/ form.value_range = <<>>
             THEN /\ view' = [a EXCEPT !.code = 302, !.flash = "error"]
                  /\ store' = store
             ELSE /\ Len(store) < MaxLeads
                  /\ IF IntegrityError(store, <<lead>>)
                     THEN /\ view' = [a EXCEPT !.code = 500, !.raised = "IntegrityError"]
                          /\ store' = store
                     ELSE /\ view' = [a EXCEPT !.code = 302, !.flash = "success"]
                          /\ store' = Append(store, lead)
    /\ UNCHANGED <<pipeline_vars, disk, ret>>

\* dashboard(): filters, seeds the sample data when nothing is shown and no
\* filter is given, computes the statistics and renders
Dashboard ==
    /\ pc = "app"
    /\ \E f \in DashboardFilters, seed \in Seeds :
         LET a == Answer("dashboard", f, store)
             filtered == SelectSeq(store, LAMBDA lead : Matches(lead, f))
             seeding == filtered = <<>> /\ ~AnyFilter(f)
             sample_leads == generate_sample_data(num_samples, seed, now)
             all_leads == IF seeding THEN store \o sample_leads ELSE store
             shown == IF seeding THEN all_leads ELSE filtered
         IN  IF seeding /\ IntegrityError(store, sample_leads)
             THEN /\ view' = [a EXCEPT !.code = 500, !.raised = "IntegrityError"]
                  /\ store' = store
             ELSE /\ store' = all_leads
                  /\ IF StatisticsRaise(shown, all_leads)
                     THEN view' = [a EXCEPT !.code = 500, !.raised = "TypeError"]
                     ELSE view' = [a EXCEPT !.code = 200,
                                            !.total_leads = Len(shown),
                                            !.total_value = SumValues(shown),
                                            !.avg_value = IF Len(shown) > 0
                                                          THEN SumValues(shown) \div Len(shown)
                                                          ELSE 0]
    /\ UNCHANGED <<pipeline_vars, disk, ret>>

\* regenerate_data(): the delete is committed before the samples are
\* generated; a failure of the second commit is caught and rolled back
regenerate_data ==
    /\ pc = "app"
    /\ \E seed \in Seeds :
         LET a == Answer("regenerate_data", NoRequest, store)
             sample_leads == generate_sample_data(25, seed, now)
         IN  IF IntegrityError(<<>>, sample_leads)
             THEN /\ view' = [a EXCEPT !.code = 302, !.flash = "error"]
                  /\ store' = <<>>
             ELSE /\ view' = [a EXCEPT !.code = 302, !.flash = "success"]
                  /\ store' = sample_leads
    /\ UNCHANGED <<pipeline_vars, disk, ret>>

InitLeads ==
    /\ caller = "app"
    /\ now \in Nows
    /\ args = <<1, 50, NoFilter>>
    /\ raw = NoneDF
    /\ df = NoneDF
    /\ loc = NoLoc
    /\ pc = "app"
    /\ result = NoResult
    /\ response = NoResponse
    /\ classifier_row = NoRow
    /\ derived = NoDerived
    /\ run = 1
    /\ previous = NoResult
    /\ disk = NoDisk
    /\ ret = NoReturn
    /\ store = <<>>
    /\ view = NoView

NextLeads == Index \/ Dashboard \/ regenerate_data

SpecLeads == InitLeads /\ [][NextLeads]_vars

\* ---------------------------------------------------------------------
\* C27: after a request to regenerate the data the table holds either the
\* 25 freshly generated sample leads and nothing else, or exactly the leads
\* it held before the request.
\* ---------------------------------------------------------------------
IsFreshSamples(table) ==
    \E seed \in Seeds : table = generate_sample_data(num_samples, seed, now)

C27_RegenerateAllOrNothing ==
    view.route = "regenerate_data" =>
        (IsFreshSamples(store) \/ store = view.store_before)

\* ---------------------------------------------------------------------
\* C30: a submission that lacks one of the three fields leaves the table
\* as it was, a complete one adds exactly one lead, and the dashboard is
\* answered without an error whatever the table holds, whether or not a
\* filter is given and whether or not anything matches.
\* ---------------------------------------------------------------------
FormComplete(f) == f.project_type # <<>> /\ f.location # <<>> /\ f.value_range # <<>>

C30_SubmitAndDashboard ==
    /\ (view.route = "index" /\ view.code = 302) =>
           IF FormComplete(view.request)
           THEN /\ Len(store) = Len(view.store_before) + 1
                /\ SubSeq(store, 1, Len(view.store_before)) = view.store_before
           ELSE store = view.store_before
    /\ view.route = "dashboard" => (view.code = 200 /\ view.raised = "none")

\* ---------------------------------------------------------------------
\* The cleaning script (clean_permits.py)
\* ---------------------------------------------------------------------
\* bound on the data lines of an input file
MaxCsvRows == 2

\* clean_building_permits(..., min_value=10000)
min_value == 10000

\* a file on disk: its lines, each the list of its fields; a blank line has
\* no field
File(lines) == [exists |-> TRUE, decodable |-> TRUE, lines |-> lines]

\* a file that is not UTF-8 text
Undecodable == [exists |-> TRUE, decodable |-> FALSE, lines |-> <<>>]

Upper(s) == [i \in 1..Len(s) |-> UpperChar(s[i])]

column_mapping ==
    << << <<"P", "E", "R", "M", "I", "T", "_", "N", "O">>, <<"p", "e", "r", "m", "i", "t", "_", "n", "u", "m", "b", "e", "r">> >>, << <<"P", "E", "R", "M", "I", "T", "_", "T", "Y", "P", "E">>, <<"p", "r", "o", "j", "e", "c", "t", "_", "t", "y", "p", "e">> >>,
       << <<"S", "T", "A", "T", "U", "S">>, <<"p", "e", "r", "m", "i", "t", "_", "s", "t", "a", "t", "u", "s">> >>, << <<"D", "E", "S", "C", "R", "I", "P", "T", "I", "O", "N">>, <<"p", "e", "r", "m", "i", "t", "_", "d", "e", "s", "c", "r", "i", "p", "t", "i", "o", "n">> >>,
       << <<"A", "D", "D", "R", "E", "S", "S">>, <<"l", "o", "c", "a", "t", "i", "o", "n">> >>, << <<"W", "O", "R", "K", "_", "T", "Y", "P", "E">>, <<"w", "o", "r", "k", "_", "t", "y", "p", "e">> >>,
       << <<"S", "U", "B", "_", "W", "O", "R", "K", "_", "T", "Y", "P", "E">>, <<"s", "u", "b", "_", "w", "o", "r", "k", "_", "t", "y", "p", "e">> >>,
       << <<"C", "O", "N", "S", "T", "R", "U", "C", "T", "I", "O", "N", "_", "V", "A", "L", "U", "E">>, <<"c", "o", "n", "s", "t", "r", "u", "c", "t", "i", "o", "n", "_", "v", "a", "l", "u", "e">> >>,
       << <<"P", "E", "R", "M", "I", "T", "_", "D", "A", "T", "E">>, <<"s", "u", "b", "m", "i", "s", "s", "i", "o", "n", "_", "d", "a", "t", "e">> >>, << <<"I", "S", "S", "U", "E", "_", "D", "A", "T", "E">>, <<"i", "s", "s", "u", "e", "_", "d", "a", "t", "e">> >>,
       << <<"F", "I", "N", "A", "L", "_", "D", "A", "T", "E">>, <<"c", "o", "m", "p", "l", "e", "t", "i", "o", "n", "_", "d", "a", "t", "e">> >>, << <<"T", "O", "T", "A", "L", "_", "U", "N", "I", "T", "S">>, <<"t", "o", "t", "a", "l", "_", "u", "n", "i", "t", "s">> >>,
       << <<"U", "N", "I", "T", "S", "_", "C", "R", "E", "A", "T", "E", "D">>, <<"u", "n", "i", "t", "s", "_", "c", "r", "e", "a", "t", "e", "d">> >>, << <<"L", "A", "T", "I", "T", "U", "D", "E">>, <<"l", "a", "t", "i", "t", "u", "d", "e">> >>,
       << <<"L", "O", "N", "G", "I", "T", "U", "D", "E">>, <<"l", "o", "n", "g", "i", "t", "u", "d", "e">> >> >>

\* df.columns.str.upper() followed by df.rename(columns=column_mapping)
RenameColumn(name) ==
    LET u == Upper(name)
    IN  IF \E i \in 1..Len(column_mapping) : column_mapping[i][1] = u
        THEN column_mapping[CHOOSE i \in 1..Len(column_mapping) : column_mapping[i][1] = u][2]
        ELSE u

date_columns == { <<"s", "u", "b", "m", "i", "s", "s", "i", "o", "n", "_", "d", "a", "t", "e">>, <<"i", "s", "s", "u", "e", "_", "d", "a", "t", "e">>, <<"c", "o", "m", "p", "l", "e", "t", "i", "o", "n", "_", "d", "a", "t", "e">> }

\* the two columns the filter and the sort name
ValueColumn == <<"c", "o", "n", "s", "t", "r", "u", "c", "t", "i", "o", "n", "_", "v", "a", "l", "u", "e">>
DateColumn == <<"s", "u", "b", "m", "i", "s", "s", "i", "o", "n", "_", "d", "a", "t", "e">>

\* the input files: a header and up to MaxCsvRows lines
Headers ==
    { << <<"P", "E", "R", "M", "I", "T", "_", "N", "O">>, <<"C", "O", "N", "S", "T", "R", "U", "C", "T", "I", "O", "N", "_", "V", "A", "L", "U", "E">>, <<"P", "E", "R", "M", "I", "T", "_", "D", "A", "T", "E">> >>,
      << <<"p", "e", "r", "m", "i", "t", "_", "n", "o">>, <<"C", "o", "n", "s", "t", "r", "u", "c", "t", "i", "o", "n", "_", "V", "a", "l", "u", "e">>, <<"p", "e", "r", "m", "i", "t", "_", "d", "a", "t", "e">> >>,
      << <<"P", "E", "R", "M", "I", "T", "_", "N", "O">>, <<"P", "E", "R", "M", "I", "T", "_", "D", "A", "T", "E">> >>,
      << <<"P", "E", "R", "M", "I", "T", "_", "N", "O">>, <<"C", "O", "N", "S", "T", "R", "U", "C", "T", "I", "O", "N", "_", "V", "A", "L", "U", "E">> >> }

CsvRecords ==
    { [no |-> <<"B", "P", "-", "1">>, val |-> <<"$", "1", "5", ",", "0", "0", "0">>, date |-> <<"2", "0", "2", "5", "-", "0", "3", "-", "1", "0">>],
      [no |-> <<"B", "P", "-", "2">>, val |-> <<"2", "5", "0", "0", "0", "0">>,  date |-> <<"2", "0", "2", "5", "-", "0", "6", "-", "0", "1">>],
      [no |-> <<"B", "P", "-", "3">>, val |-> <<"5", "0", "0", "0">>,    date |-> <<"2", "0", "2", "5", "-", "0", "1", "-", "1", "5">>],
      [no |-> <<"B", "P", "-", "4">>, val |-> <<>>,         date |-> <<"2", "0", "2", "5", "-", "0", "2", "-", "0", "2">>],
      [no |-> <<"B", "P", "-", "5">>, val |-> <<"2", "0", "0", "0", "0">>,   date |-> <<"n", "o", "t", " ", "a", " ", "d", "a", "t", "e">>],
      [no |-> <<"B", "P", "-", "6">>, val |-> <<"a", "b", "c">>,     date |-> <<"2", "0", "2", "5", "-", "0", "4", "-", "0", "4">>],
      [no |-> <<"B", "P", "-", "7">>, val |-> <<"1", "0", "0", "0", "0">>,   date |-> <<"2", "0", "2", "5", "-", "0", "6", "-", "0", "1">>] }

CsvLine(header, r) ==
    [i \in 1..Len(header) |->
        CASE RenameColumn(header[i]) = ValueColumn -> r.val
          [] RenameColumn(header[i]) = DateColumn -> r.date
          [] OTHER -> r.no]

CsvTables ==
    { <<h>> \o [i \in 1..Len(rs) |-> CsvLine(h, rs[i])] :
        h \in Headers, rs \in UNION {[1..n -> CsvRecords] : n \in 0..MaxCsvRows} }

InputFiles ==
    {NoFile, Undecodable, File(<<>>), File(<< <<>>, <<>> >>)} \cup {File(t) : t \in CsvTables}

\* pd.read_csv: blank lines are skipped, the first line left names the
\* columns, an empty field is NaN.  error names the exception raised.
read_csv(file) ==
    LET lines == SelectSeq(file.lines, LAMBDA l : l # <<>>)
        header == Head(lines)
    IN  IF ~file.exists THEN [error |-> "FileNotFoundError", header |-> <<>>, rows |-> <<>>]
        ELSE IF ~file.decodable THEN [error |-> "UnicodeDecodeError", header |-> <<>>, rows |-> <<>>]
        ELSE IF lines = <<>> THEN [error |-> "EmptyDataError", header |-> <<>>, rows |-> <<>>]
        ELSE [error |-> "none", header |-> header,
              rows |-> [i \in 1..(Len(lines) - 1) |->
                          [j \in 1..Len(header) |->
                              IF lines[i + 1][j] = <<>> THEN Null ELSE Str(lines[i + 1][j])]]]

\* position of a column among the (renamed) columns, 0 when it is absent
ColumnAt(header, name) ==
    IF \E j \in 1..Len(header) : header[j] = name
    THEN CHOOSE j \in 1..Len(header) : header[j] = name ELSE 0

\* .replace('[\$,]', '', regex=True).astype(float) of one cell
AsFloat(c) ==
    IF c.k # "str" THEN [ok |-> TRUE, cell |-> c]
    ELSE LET p == ParseFloat(SelectSeq(c.s, LAMBDA ch : ch \notin {"$", ","}))
         IN  [ok |-> p.ok, cell |-> Num(p.n)]

\* df.dropna(): a row with any missing value goes
DropNa(rows) == SelectSeq(rows, LAMBDA r : \A j \in 1..Len(r) : ~IsNa(r[j]))

AtLeastMinValue_Any(r, v) == TRUE

\* df['construction_value'] >= min_value of one row
AtLeastMinValue(r, v) == r[v].n >= min_value

\* df.sort_values('submission_date', ascending=False)
RECURSIVE SortDescending(_, _)
SortDescending(rows, d) ==
    IF rows = <<>> THEN <<>>
    ELSE LET m == CHOOSE i \in 1..Len(rows) :
                     /\ \A j \in 1..Len(rows) : rows[i][d].n >= rows[j][d].n
                     /\ \A j \in 1..(i - 1) : rows[j][d].n < rows[i][d].n
         IN  <<rows[m]>> \o SortDescending(SubSeq(rows, 1, m - 1) \o SubSeq(rows, m + 1, Len(rows)), d)

RECURSIVE SumColumn(_, _)
SumColumn(rows, v) == IF rows = <<>> THEN 0 ELSE Head(rows)[v].n + SumColumn(Tail(rows), v)

\* Series.mean(): NaN on an empty column
Mean(rows, v) == IF rows = <<>> THEN Null ELSE Num(SumColumn(rows, v) \div Len(rows))

\* df.to_csv(index=False) of one cell
ToCsv(c) == CASE c.k = "str" -> c.s
              [] c.k = "num" -> NatToDigits(c.n) \o <<".", "0">>
              [] c.k = "ts"  -> Strftime(c.n)
              [] OTHER       -> <<>>

\* the body of clean_building_permits up to its return: the exception it
\* ends in ("none" when it reaches `return True`) and the step that raised
\* it, the statistics it logs and the lines it writes.  The date range of
\* an empty frame is NaT, which cannot be formatted.
Cleaning(file) ==
    LET read    == read_csv(file)
        header  == [j \in 1..Len(read.header) |-> RenameColumn(read.header[j])]
        v       == ColumnAt(header, ValueColumn)
        d       == ColumnAt(header, DateColumn)
        dated   == [i \in 1..Len(read.rows) |->
                      [j \in 1..Len(header) |->
                          IF header[j] \in date_columns THEN ToDatetime(read.rows[i][j])
                          ELSE read.rows[i][j]]]
        floats  == [i \in 1..Len(dated) |->
                      [j \in 1..Len(header) |->
                          IF j = v THEN AsFloat(dated[i][j]).cell ELSE dated[i][j]]]
        kept    == DropNa(floats)
        valued  == SelectSeq(kept, LAMBDA r : AtLeastMinValue(r, v))
        sorted  == SortDescending(valued, d)
        fail(e, at) == [error |-> e, at |-> at, total |-> 0, mean |-> Null, lines |-> <<>>]
    IN  IF read.error # "none" THEN fail(read.error, "read_csv")
        ELSE IF v # 0 /\ \E i \in 1..Len(dated) : ~AsFloat(dated[i][v]).ok
             THEN fail("ValueError", "astype")
        ELSE IF v = 0 THEN fail("KeyError", "filter")
        ELSE IF d = 0 THEN fail("KeyError", "sort_values")
        ELSE IF sorted = <<>>
             THEN [error |-> "ValueError", at |-> "statistics", total |-> 0,
                   mean |-> Mean(sorted, v), lines |-> <<>>]
        ELSE [error |-> "none", at |-> "return", total |-> Len(sorted), mean |-> Mean(sorted, v),
              lines |-> <<header>> \o [i \in 1..Len(sorted) |->
                                        [j \in 1..Len(header) |-> ToCsv(sorted[i][j])]]]

\* clean_building_permits(): every exception is caught and answered False
clean_building_permits ==
    /\ pc = "script"
    /\ LET c == Cleaning(disk.permits)
       IN  /\ ret' = [fn |-> "clean_building_permits", value |-> (c.error = "none"),
                      raised |-> FALSE, error |-> c.error, at |-> c.at,
                      total |-> c.total, mean |-> c.mean, before |-> disk]
           /\ disk' = IF c.error = "none" THEN [disk EXCEPT !.cleaned = File(c.lines)] ELSE disk
    /\ UNCHANGED <<pipeline_vars, store, view>>

InitClean ==
    /\ caller = "script"
    /\ now \in Nows
    /\ args = <<1, 50, NoFilter>>
    /\ raw = NoneDF
    /\ df = NoneDF
    /\ loc = NoLoc
    /\ pc = "script"
    /\ result = NoResult
    /\ response = NoResponse
    /\ classifier_row = NoRow
    /\ derived = NoDerived
    /\ run = 1
    /\ previous = NoResult
    /\ disk \in {[NoDisk EXCEPT !.permits = f] : f \in InputFiles}
    /\ ret = NoReturn
    /\ store = <<>>
    /\ view = NoView

NextClean == clean_building_permits

SpecClean == InitClean /\ [][NextClean]_vars

\* ---------------------------------------------------------------------
\* C29: when clean_building_permits returns True the file it wrote holds
\* only lines without an empty field and with a construction value of at
\* least min_value, the most recent submission date first; when the input
\* is missing, empty, lacks one of the two columns or holds a value that
\* is no number it returns False, and it never raises.
\* ---------------------------------------------------------------------
Cleaned == ret.fn = "clean_building_permits"

WrittenValue(text) == DigitsToNat(SubSeq(text, 1, Len(text) - 2))

OutputIsClean(lines) ==
    LET v == ColumnAt(lines[1], ValueColumn)
        d == ColumnAt(lines[1], DateColumn)
    IN  /\ v # 0 /\ d # 0
        /\ \A i \in 2..Len(lines) :
              /\ \A j \in 1..Len(lines[i]) : lines[i][j] # <<>>
              /\ WrittenValue(lines[i][v]) >= min_value
              /\ IsIsoDate(lines[i][d])
        /\ \A i \in 2..(Len(lines) - 1) : ParseDate(lines[i][d]) >= ParseDate(lines[i + 1][d])

InputUnusable(file) ==
    LET lines == SelectSeq(file.lines, LAMBDA l : l # <<>>)
        header == [j \in 1..Len(lines[1]) |-> RenameColumn(lines[1][j])]
        v == ColumnAt(header, ValueColumn)
    IN  \/ ~file.exists
        \/ lines = <<>>
        \/ v = 0
        \/ ColumnAt(header, DateColumn) = 0
        \/ \E i \in 2..Len(lines) :
              lines[i][v] # <<>> /\ ~AllDigits(SelectSeq(lines[i][v], LAMBDA ch : ch \notin {"$", ","}))

C29_CleanedFileIsClean ==
    Cleaned =>
        /\ ~ret.raised
        /\ ret.value => (disk.cleaned.exists /\ OutputIsClean(disk.cleaned.lines))
        /\ InputUnusable(ret.before.permits) => (~ret.value /\ disk = ret.before)

\* a file of two lines in ascending date order is written in descending order
C29_Witness ==
    /\ Cleaned /\ ret.value
    /\ Len(disk.cleaned.lines) = 3
    /\ disk.cleaned.lines[2][1] = ret.before.permits.lines[3][1]
    /\ disk.cleaned.lines[2][1] # disk.cleaned.lines[3][1]

\* ---------------------------------------------------------------------
\* C24: the statistics of an empty set of permits are computed without a
\* failure and their mean construction value is 0 (here: the statistics of
\* the cleaning script when no line is left after the filters).
\* ---------------------------------------------------------------------
C24_EmptyStatistics ==
    (Cleaned /\ ret.at \in {"statistics", "return"} /\ ret.total = 0) =>
        (ret.value /\ ret.mean = Num(0))

\* ---------------------------------------------------------------------
\* The download script (download_permits.py)
\* ---------------------------------------------------------------------
\* bound on the seconds that pass while the script is used
MaxTicks == 1

FirstHeader == << <<"P", "E", "R", "M", "I", "T", "_", "N", "O">>, <<"C", "O", "N", "S", "T", "R", "U", "C", "T", "I", "O", "N", "_", "V", "A", "L", "U", "E">>, <<"P", "E", "R", "M", "I", "T", "_", "D", "A", "T", "E">> >>

\* the file of an earlier download
OldFile == File(<< FirstHeader, << <<"B", "P", "-", "0">>, <<"3", "0", "0", "0", "0">>, <<"2", "0", "2", "4", "-", "1", "2", "-", "0", "1">> >> >>)

\* the bodies the portal answers with: nothing, bytes that are not UTF-8,
\* blank lines only, a header alone, a header and a blank line, tables
Bodies ==
    { File(<<>>), Undecodable, File(<< <<>>, <<>> >>), File(<< FirstHeader >>),
      File(<< FirstHeader, <<>> >>),
      File(<< FirstHeader, << <<"B", "P", "-", "1">>, <<"$", "1", "5", ",", "0", "0", "0">>, <<"2", "0", "2", "5", "-", "0", "3", "-", "1", "0">> >> >>),
      File(<< FirstHeader, << <<"B", "P", "-", "1">>, <<"$", "1", "5", ",", "0", "0", "0">>, <<"2", "0", "2", "5", "-", "0", "3", "-", "1", "0">> >>,
                           << <<"B", "P", "-", "2">>, <<"2", "5", "0", "0", "0", "0">>, <<"2", "0", "2", "5", "-", "0", "6", "-", "0", "1">> >> >>) }

\* os.rename(output_file, backup_file): a backup of the same name is replaced
Rename(backups, stamp, file) ==
    Append(SelectSeq(backups, LAMBDA b : b.stamp # stamp), [stamp |-> stamp, file |-> file])

\* the verification of the written file with csv.reader: next(reader) on a
\* file without a line raises StopIteration, every further line counts as a
\* row, a blank one too
Verify(file) ==
    IF ~file.decodable THEN [error |-> "UnicodeDecodeError", row_count |-> 0]
    ELSE IF file.lines = <<>> THEN [error |-> "StopIteration", row_count |-> 0]
    ELSE [error |-> "none", row_count |-> Len(file.lines) - 1]

\* download_building_permits(): request, backup of the existing file, write,
\* verification
download_building_permits ==
    /\ pc = "script"
    /\ \E tick \in {0, 1}, outcome \in {"Timeout", "HTTPError", "ok"}, body \in Bodies :
         LET a == [fn |-> "download_building_permits", value |-> FALSE, raised |-> FALSE,
                   error |-> "none", at |-> "request", total |-> 0, mean |-> Null,
                   before |-> disk]
             v == Verify(body)
         IN  /\ \A t \in Nows : now + tick <= t + MaxTicks
             /\ now' = now + tick
             /\ IF outcome # "ok"
                THEN /\ body = File(<<>>)
                     /\ ret' = [a EXCEPT !.error = outcome]
                     /\ disk' = disk
                ELSE /\ disk' = [disk EXCEPT
                                    !.backups = IF disk.permits.exists
                                                THEN Rename(@, now', disk.permits) ELSE @,
                                    !.permits = body]
                     /\ ret' = IF v.error # "none"
                               THEN [a EXCEPT !.error = v.error, !.at = "verify"]
                               ELSE IF v.row_count = 0
                               THEN [a EXCEPT !.at = "verify"]
                               ELSE [a EXCEPT !.value = TRUE, !.at = "return",
                                              !.total = v.row_count]
    /\ UNCHANGED <<caller, args, raw, df, loc, pc, result, response, classifier_row, derived,
                   run, previous, store, view>>

InitDownload ==
    /\ caller = "script"
    /\ now \in Nows
    /\ args = <<1, 50, NoFilter>>
    /\ raw = NoneDF
    /\ df = NoneDF
    /\ loc = NoLoc
    /\ pc = "script"
    /\ result = NoResult
    /\ response = NoResponse
    /\ classifier_row = NoRow
    /\ derived = NoDerived
    /\ run = 1
    /\ previous = NoResult
    /\ disk \in {NoDisk, [NoDisk EXCEPT !.permits = OldFile]}
    /\ ret = NoReturn
    /\ store = <<>>
    /\ view = NoView

NextDownload == download_building_permits

SpecDownload == InitDownload /\ [][NextDownload]_vars

\* ---------------------------------------------------------------------
\* C28: a download whose request fails leaves the file as it was, creates
\* no backup and returns False; a download that overwrites the file has
\* first moved its previous content to a backup; and a download returns
\* True only when the file it wrote has a header and at least one data row.
\* ---------------------------------------------------------------------
Downloaded == ret.fn = "download_building_permits"

HasHeaderAndData(file) ==
    /\ file.exists /\ file.decodable
    /\ file.lines # <<>> /\ file.lines[1] # <<>>
    /\ \E i \in 2..Len(file.lines) : file.lines[i] # <<>>

C28_DownloadKeepsPreviousData ==
    Downloaded =>
        /\ ret.at = "request" => (~ret.value /\ disk = ret.before)
        /\ (ret.at # "request" /\ ret.before.permits.exists) =>
              \E i \in 1..Len(disk.backups) : disk.backups[i].file = ret.before.permits
        /\ ret.value => HasHeaderAndData(disk.permits)
====
